---- MODULE Spec2Model ----
(***************************************************************************)
(* Session/event tracking service on a single DynamoDB table.              *)
(*                                                                         *)
(* The table is a set of items, each carrying its own PK and SK.  A        *)
(* request (a service call) is a record in `calls` that advances one store *)
(* operation at a time: every `await` of a store operation is one step,    *)
(* and the synchronous code that follows the await belongs to that step.   *)
(* Calls with a negative id are requests of their own (one per Lambda      *)
(* invocation); calls with an id >= 0 are the trackEvent tasks of the      *)
(* running trackBatchEvents call, named by their index in its input.       *)
(***************************************************************************)
EXTENDS Integers, Sequences, FiniteSets, TLC

----------------------------------------------------------------------------
(* Bounds of the model *)

\* first value of the wall clock (in clock units)
ClockStart == 9
\* number of times the clock may advance
ClockSpan == 1
\* number of event ids the uuid generator may hand out in one run
MaxIds == 3
\* number of event ids the generator may hand out to overlapping requests
MaxRaceIds == 2
\* number of requests in a run of overlapping requests
MaxRequests == 2
\* longest accepted batch that is processed
MaxBatchLen == 7
\* the trackBatchEvents calls of a behaviour checked for termination
MaxLiveCalls == 1

MaxClock == ClockStart + ClockSpan

----------------------------------------------------------------------------
(* Values *)

Null == "null"
NoItem == [itemType |-> "NONE"]

SessionIds == {"s1", "s2"}

IdChars == <<"a", "b", "c", "d", "e", "f">>
EventIds == {IdChars[i] : i \in 1..MaxIds}

RECURSIVE Orderings(_)
\* the sequences that hold every element of S once
Orderings(S) ==
  IF S = {} THEN {<<>>}
  ELSE UNION {{<<x>> \o rest : rest \in Orderings(S \ {x})} : x \in S}

\* the characters sort keys are made of, in ASCII order
Ascii == <<"#", "0", "1", "2", "3", "4", "5", "6", "7", "8", "9",
           "A", "D", "E", "M", "N", "T", "V", "a", "b", "c", "d", "e", "f">>

CharRank(ch) == CHOOSE i \in 1..Len(Ascii) : Ascii[i] = ch

RECURSIVE LexLess(_, _)
\* string comparison of two sort keys, as DynamoDB orders string sort keys
LexLess(a, b) ==
  IF b = <<>> THEN FALSE
  ELSE IF a = <<>> THEN TRUE
  ELSE IF Head(a) = Head(b) THEN LexLess(Tail(a), Tail(b))
  ELSE CharRank(Head(a)) < CharRank(Head(b))

BeginsWith(s, prefix) ==
  /\ Len(prefix) <= Len(s)
  /\ SubSeq(s, 1, Len(prefix)) = prefix

DigitChars == <<"0", "1", "2", "3", "4", "5", "6", "7", "8", "9">>

\* Date.prototype.toISOString: a fixed-width, zero-padded rendering of the clock
ToISOString(t) == <<DigitChars[(t \div 10) + 1], DigitChars[(t % 10) + 1]>>

DigitValue(ch) == (CHOOSE i \in 1..10 : DigitChars[i] = ch) - 1

\* new Date(isoString): the clock value an ISO string stands for
ParseDate(s) == DigitValue(s[1]) * 10 + DigitValue(s[2])

MetadataSK == <<"#", "M", "E", "T", "A", "D", "A", "T", "A">>
EventPrefix == <<"E", "V", "E", "N", "T", "#">>

SessionPK(sessionId) == <<"SESSION#", sessionId>>
EventSK(timestamp, eventId) == EventPrefix \o timestamp \o <<"#">> \o <<eventId>>

----------------------------------------------------------------------------
(* Validation (shared/validator.js) *)

AllowedTypes ==
  {"landing", "click", "form_submit", "form_start", "quiz_start", "quiz_complete",
   "product_view", "add_to_cart", "checkout_start", "checkout_complete",
   "page_view", "video_play", "video_complete", "download", "signup", "login",
   "custom"}

validateRequired(value) == value \notin {Null, ""}

validateEventTypeNoEnum(eventType) == validateRequired(eventType)

\* TRUE when validateEventType returns, FALSE when it throws ValidationError
validateEventType(eventType) ==
  /\ validateRequired(eventType)
  /\ eventType \in AllowedTypes

\* request values of eventData: a plain object, an array, a scalar, null
PlainObjects == {"{}", "{k:1}"}

validateObjectAny(value) == TRUE

validateObject(value) == value \in PlainObjects

validateSessionId(sessionId) == validateRequired(sessionId)

----------------------------------------------------------------------------
VARIABLES
  table,    \* the items of the DynamoDB table
  now,      \* the wall clock at its last reading by new Date()
  calls,    \* the service calls in progress, by call id
  batch,    \* the trackBatchEvents call
  admitted, \* number of requests received so far, counted up to MaxRequests
  idStream  \* the event ids uuidv4 is going to return, in order

vars == <<table, now, calls, batch, admitted, idStream>>

Min(a, b) == IF a < b THEN a ELSE b

\* a request is received
Admit == admitted' = Min(admitted + 1, MaxRequests)

ClockSetBack == ClockStart..MaxClock

\* what new Date() may read: the clock does not run backwards, and it is
\* observed only when it is read
Clock == now..MaxClock

----------------------------------------------------------------------------
(* Store client (shared/dynamodbClient.js) *)

SameKey(a, b) == a.PK = b.PK /\ a.SK = b.SK

putItem(t, item) == {x \in t : ~SameKey(x, item)} \cup {item}

getItem(t, pk, sk) ==
  IF \E x \in t : x.PK = pk /\ x.SK = sk
  THEN CHOOSE x \in t : x.PK = pk /\ x.SK = sk
  ELSE NoItem

deleteItem(t, pk, sk) == {x \in t : ~(x.PK = pk /\ x.SK = sk)}

\* the value of a timestamp attribute the item does not have
NoTimestamp == <<>>

\* an item that has its key attributes only: the attributes an item does not
\* have read as Null (undefined)
KeyOnlyItem(pk, sk) ==
  [PK |-> pk, SK |-> sk, itemType |-> Null, eventId |-> Null, sessionId |-> Null,
   eventType |-> Null, eventData |-> Null, timestamp |-> NoTimestamp,
   createdAt |-> NoTimestamp]

\* UpdateItem with SET attr = value for every key of updates and no condition
\* expression: the item is created when there is none under the key
updateItem(t, pk, sk, updates) ==
  LET existing == getItem(t, pk, sk)
  IN putItem(t, updates @@ (IF existing = NoItem THEN KeyOnlyItem(pk, sk) ELSE existing))

RECURSIVE SortBySK(_)
SortBySK(S) ==
  IF S = {} THEN <<>>
  ELSE LET m == CHOOSE x \in S : \A y \in S : x = y \/ LexLess(x.SK, y.SK)
       IN <<m>> \o SortBySK(S \ {m})

RECURSIVE SortBySKDescending(_)
SortBySKDescending(S) ==
  IF S = {} THEN <<>>
  ELSE LET m == CHOOSE x \in S : \A y \in S : x = y \/ LexLess(y.SK, x.SK)
       IN <<m>> \o SortBySKDescending(S \ {m})

queryItemsDescending(t, pk, skPrefix) ==
  SortBySKDescending({x \in t : x.PK = pk /\ BeginsWith(x.SK, skPrefix)})

\* Query on the main table: the items of one partition whose sort key begins
\* with skPrefix (<<>> for none), in ascending sort-key order.  The answer is
\* taken to fit in one page: the client sends one Query and returns its Items.
queryItems(t, pk, skPrefix) ==
  SortBySK({x \in t : x.PK = pk /\ BeginsWith(x.SK, skPrefix)})

\* the items the global secondary index GSI1 holds: those that have both of
\* its key attributes
IndexedItems(t) == {x \in t : {"GSI1PK", "GSI1SK"} \subseteq DOMAIN x}

\* the first n elements of a sequence
Take(seq, n) == SubSeq(seq, 1, Min(n, Len(seq)))

queryIndexByAttribute(t, gsi1pk, limit) ==
  LET matching == {x \in t : /\ x.itemType = "SESSION_METADATA"
                             /\ <<"USER#", x.externalId>> = gsi1pk}
  IN {Take(order, limit) :
        order \in {o \in Orderings(matching) :
                     \A i, j \in DOMAIN o :
                       i < j => ~LexLess(o[j].createdAt, o[i].createdAt)}}

queryIndexNewestFirst(t, gsi1pk, limit) ==
  LET matching == {x \in IndexedItems(t) : x.GSI1PK = gsi1pk}
  IN {Take(order, limit) :
        order \in {o \in Orderings(matching) :
                     \A i, j \in DOMAIN o : i < j => ~LexLess(o[i].GSI1SK, o[j].GSI1SK)}}

\* Query on GSI1 with Limit: the answers the store may give, the items of one
\* index partition in ascending GSI1SK order (items of equal GSI1SK in any
\* order), cut after the first limit items
queryIndex(t, gsi1pk, limit) ==
  LET matching == {x \in IndexedItems(t) : x.GSI1PK = gsi1pk}
  IN {Take(order, limit) :
        order \in {o \in Orderings(matching) :
                     \A i, j \in DOMAIN o : i < j => ~LexLess(o[j].GSI1SK, o[i].GSI1SK)}}

----------------------------------------------------------------------------
(* Repositories *)

getSession(t, sessionId) == getItem(t, SessionPK(sessionId), MetadataSK)

getSessionEvents(t, sessionId) == queryItems(t, SessionPK(sessionId), EventPrefix)

\* eventRepository.createEvent: the item it builds from a fresh id and the clock
createEventItem(sessionId, eventType, eventData, eventId, clock) ==
  LET timestamp == ToISOString(clock) IN
  [PK |-> SessionPK(sessionId),
   SK |-> EventSK(timestamp, eventId),
   itemType |-> "EVENT",
   eventId |-> eventId,
   sessionId |-> sessionId,
   eventType |-> eventType,
   eventData |-> IF eventData \in {Null, ""} THEN "{}" ELSE eventData,
   timestamp |-> timestamp,
   createdAt |-> timestamp]

\* sessionRepository.createSession: the metadata item it builds
createSessionItem(sessionData, clock) ==
  LET timestamp == ToISOString(clock)
      item == [PK |-> SessionPK(sessionData.sessionId),
               SK |-> MetadataSK,
               itemType |-> "SESSION_METADATA",
               sessionId |-> sessionData.sessionId,
               externalId |-> IF sessionData.externalId = "" THEN Null
                              ELSE sessionData.externalId,
               userAgent |-> sessionData.userAgent,
               ipAddress |-> sessionData.ipAddress,
               status |-> sessionData.status,
               stepsTaken |-> sessionData.stepsTaken,
               createdAt |-> timestamp,
               updatedAt |-> timestamp,
               metadata |-> sessionData.metadata]
  IN IF sessionData.externalId \notin {Null, ""}
     THEN [GSI1PK |-> <<"USER#", sessionData.externalId>>,
           GSI1SK |-> <<"SESSION#">> \o timestamp] @@ item
     ELSE item

mergeSessionStale(existing, updates, clock) == updates @@ existing

\* sessionRepository.updateSession: { ...existing, ...updates, updatedAt }
mergeSession(existing, updates, clock) ==
  [updatedAt |-> ToISOString(clock)] @@ updates @@ existing

----------------------------------------------------------------------------
(* Service calls *)

NoUpdates == [none |-> Null]

\* the response body of a call that has not returned one
NoReport == [none |-> Null]

\* a call that has not been made
Idle ==
  [op |-> "idle", pc |-> "idle", sessionId |-> Null, input |-> NoUpdates,
   event |-> NoItem, items |-> <<>>, idx |-> 0, updates |-> NoUpdates,
   updated |-> NoItem, session |-> NoItem, got |-> {}, value |-> 0,
   error |-> "none", pre |-> {}, report |-> NoReport]

NewCall(op, pc, sessionId, input) ==
  [Idle EXCEPT !.op = op, !.pc = pc, !.sessionId = sessionId, !.input = input]

\* the call returns normally
Returned(c) == [c EXCEPT !.pc = "done", !.updates = NoUpdates, !.updated = NoItem]

\* the call throws
Thrown(c, error) ==
  [c EXCEPT !.pc = "done", !.error = error, !.event = NoItem,
            !.updates = NoUpdates, !.updated = NoItem]

\* the two Lambda invocations whose requests may overlap
ProcIds == {0 - 1, 0 - 2}
TaskIds == {id \in DOMAIN calls : id >= 0}

IsDone(id) == calls[id].pc = "done"
Succeeded(id) == calls[id].pc = "done" /\ calls[id].error = "none"
Failed(id, error) == calls[id].pc = "done" /\ calls[id].error = error
InFlight(id) == calls[id].pc \notin {"idle", "done"}

StoredEvents == {x \in table : x.itemType = "EVENT"}

EventKey(item) ==
  [sessionId |-> item.sessionId, timestamp |-> item.timestamp, eventId |-> item.eventId]

----------------------------------------------------------------------------
(* eventService.trackEvent *)

\* trackEvent up to its first await: validateEventType, then getSession is sent
trackEventStart(item) ==
  LET c == NewCall("trackEvent", "getSession", item.sessionId,
                   [eventType |-> item.eventType, eventData |-> item.eventData])
  IN IF validateEventType(item.eventType) THEN c ELSE Thrown(c, "ValidationError")

trackEventUnchecked(c, session, eventId, clock) ==
  IF c.input.eventData # Null /\ ~validateObject(c.input.eventData)
  THEN Thrown(c, "ValidationError")
  ELSE [c EXCEPT !.pc = "putEvent",
                 !.event = createEventItem(c.sessionId, c.input.eventType,
                                           c.input.eventData, eventId, clock)]

\* getSession has answered: the existence check, validateObject, and
\* createEvent builds its item and sends the put
trackEventChecked(c, session, eventId, clock) ==
  IF session = NoItem THEN Thrown(c, "NotFoundError")
  ELSE IF c.input.eventData # Null /\ ~validateObject(c.input.eventData)
  THEN Thrown(c, "ValidationError")
  ELSE [c EXCEPT !.pc = "putEvent",
                 !.event = createEventItem(c.sessionId, c.input.eventType,
                                           c.input.eventData, eventId, clock)]

newStepCountPlusTwo(session) == session.stepsTaken + 2

\* incrementSessionSteps: (session.stepsTaken || 0) + 1, from the copy it read
\* (stepsTaken is an integer in every stored session, so x || 0 is x)
newStepCount(session) == session.stepsTaken + 1

TrackEventGetSession(id) ==
  /\ calls[id].op = "trackEvent" /\ calls[id].pc = "getSession"
  /\ LET c == calls[id]
         session == getSession(table, c.sessionId)
     IN IF session = NoItem
           \/ (c.input.eventData # Null /\ ~validateObject(c.input.eventData))
        THEN /\ calls' = [calls EXCEPT ![id] = trackEventChecked(c, session, Null, now)]
             /\ UNCHANGED <<now, idStream>>
        ELSE \E clock \in Clock :
               /\ idStream # <<>>
               /\ calls' = [calls EXCEPT ![id] =
                              trackEventChecked(c, session, Head(idStream), clock)]
               /\ idStream' = Tail(idStream)
               /\ now' = clock
  /\ UNCHANGED <<table, batch, admitted>>

TrackEventIncrementsFirst(id) ==
  /\ calls[id].op = "trackEvent" /\ calls[id].pc = "putEvent"
  /\ table' = table
  /\ calls' = [calls EXCEPT ![id].pc = "incGet"]
  /\ UNCHANGED <<now, batch, admitted, idStream>>

TrackEventPutEventIfSession(id) ==
  /\ calls[id].op = "trackEvent" /\ calls[id].pc = "putEvent"
  /\ table' = IF getSession(table, calls[id].sessionId) = NoItem THEN table
              ELSE putItem(table, calls[id].event)
  /\ calls' = [calls EXCEPT ![id].pc = "incGet"]
  /\ UNCHANGED <<now, batch, admitted, idStream>>

TrackEventPutEvent(id) ==
  /\ calls[id].op = "trackEvent" /\ calls[id].pc = "putEvent"
  /\ table' = putItem(table, calls[id].event)
  /\ calls' = [calls EXCEPT ![id].pc = "incGet"]
  /\ UNCHANGED <<now, batch, admitted, idStream>>

\* incrementSessionSteps reads the session; a missing session throws, and
\* trackEvent swallows what incrementSessionSteps throws
TrackEventIncGet(id) ==
  /\ calls[id].op = "trackEvent" /\ calls[id].pc = "incGet"
  /\ LET c == calls[id]
         session == getSession(table, c.sessionId)
     IN calls' = [calls EXCEPT ![id] =
          IF session = NoItem THEN Returned(c)
          ELSE [c EXCEPT !.pc = "updGet",
                         !.updates = [stepsTaken |-> newStepCount(session)]]]
  /\ UNCHANGED <<table, now, batch, admitted, idStream>>

----------------------------------------------------------------------------
(* sessionRepository.updateSession, as called by incrementSessionSteps,      *)
(* deleteEvent and sessionService.updateSession                              *)

UpdateMissingIgnored(c) == Returned(c)

\* what the caller does when updateSession returns null
UpdateMissing(c) ==
  IF c.op = "updateSession" THEN Thrown(c, "NotFoundError") ELSE Returned(c)

RepoUpdateGet(id) ==
  /\ calls[id].pc = "updGet"
  /\ LET c == calls[id]
         existing == getSession(table, c.sessionId)
     IN IF existing = NoItem
        THEN /\ calls' = [calls EXCEPT ![id] = UpdateMissing(c)]
             /\ now' = now
        ELSE \E clock \in Clock :
               /\ calls' = [calls EXCEPT ![id] =
                    [c EXCEPT !.pc = "updPut",
                              !.updated = mergeSession(existing, c.updates, clock)]]
               /\ now' = clock
  /\ UNCHANGED <<table, batch, admitted, idStream>>

RepoUpdatePut(id) ==
  /\ calls[id].pc = "updPut"
  /\ table' = putItem(table, calls[id].updated)
  /\ calls' = [calls EXCEPT ![id] =
       [Returned(calls[id]) EXCEPT !.updated =
          IF calls[id].op = "updateSession" THEN calls[id].updated ELSE NoItem]]
  /\ UNCHANGED <<now, batch, admitted, idStream>>

----------------------------------------------------------------------------
(* eventService.trackBatchEvents *)

ConcurrencyLimitSix == 5 + 1

\* the size of one window: events.slice(i, i + CONCURRENCY_LIMIT)
CONCURRENCY_LIMIT == 5
\* the largest batch trackBatchEvents accepts
BatchCap == 25

WindowWithoutLast(events, i) == i..(Min(i + CONCURRENCY_LIMIT, Len(events)) - 2)

\* the input indexes of the window that starts at i
Window(events, i) == i..(Min(i + CONCURRENCY_LIMIT, Len(events)) - 1)

NoBatch ==
  [status |-> "idle", isArray |-> TRUE, events |-> <<>>, i |-> 0,
   results |-> <<>>, errors |-> <<>>, error |-> "none",
   report |-> [total |-> 0, successful |-> 0, failed |-> 0]]

\* an item for which createEvent may draw an event id
NeedsId(item) == validateEventType(item.eventType) /\ item.sessionId \in SessionIds

\* event ids still owed to calls already admitted
Reserved ==
  Cardinality({id \in DOMAIN calls :
                 /\ calls[id].op = "trackEvent" /\ calls[id].pc = "getSession"
                 /\ calls[id].sessionId \in SessionIds})
  + Cardinality({k \in 1..Len(batch.events) :
                   /\ batch.status = "running"
                   /\ k - 1 >= batch.i + CONCURRENCY_LIMIT
                   /\ NeedsId(batch.events[k])})

FreeIds == Len(idStream) - Reserved

batchSizeOkOffByOne(events) == Len(events) <= BatchCap + 1

\* FALSE when trackBatchEvents throws for the size of its input
batchSizeOk(events) == Len(events) <= BatchCap

\* batch.map(...): every task of the window runs to its first await
StartWindow(events, i) ==
  [id \in ProcIds \cup Window(events, i) |->
     IF id \in ProcIds THEN calls[id] ELSE trackEventStart(events[id + 1])]

TaskResultIndexInWindowFromOne(id) ==
  IF calls[id].error = "none"
  THEN [index |-> id + 1, success |-> TRUE,
        eventId |-> calls[id].event.eventId,
        sessionId |-> calls[id].event.sessionId,
        eventType |-> calls[id].event.eventType,
        timestamp |-> calls[id].event.timestamp]
  ELSE [index |-> id + 1, success |-> FALSE, error |-> calls[id].error]

\* what the task of input index id resolves to
TaskResult(id) ==
  IF calls[id].error = "none"
  THEN [index |-> id, success |-> TRUE,
        eventId |-> calls[id].event.eventId,
        sessionId |-> calls[id].event.sessionId,
        eventType |-> calls[id].event.eventType,
        timestamp |-> calls[id].event.timestamp]
  ELSE [index |-> id, success |-> FALSE, error |-> calls[id].error]

BatchResultsLastFirst ==
  LET w == Window(batch.events, batch.i)
  IN [k \in 1..Cardinality(w) |-> TaskResult(batch.i + Cardinality(w) - k)]

\* Promise.all(batchPromises): the results of the window in input order
BatchResults ==
  LET w == Window(batch.events, batch.i)
  IN [k \in 1..Cardinality(w) |-> TaskResult(batch.i + k - 1)]

IsSuccess(r) == r.success
IsError(r) == ~r.success

WindowSettledNever == FALSE

\* Promise.all has resolved: every task of the window has completed
WindowSettled == \A id \in TaskIds : IsDone(id)

StartBatch(input) ==
  /\ batch.status = "idle"
  /\ TaskIds = {}
  /\ Cardinality({k \in 1..Len(input.events) : NeedsId(input.events[k])}) <= FreeIds
  /\ IF ~input.isArray \/ Len(input.events) = 0 \/ ~batchSizeOk(input.events)
     THEN /\ batch' = [NoBatch EXCEPT !.status = "failed", !.isArray = input.isArray,
                                      !.events = input.events,
                                      !.error = "ValidationError"]
          /\ UNCHANGED calls
     ELSE /\ batch' = [NoBatch EXCEPT !.status = "running", !.events = input.events]
          /\ calls' = StartWindow(input.events, 0)
  /\ Admit
  /\ UNCHANGED <<table, now, idStream>>

\* the window is collected and the loop goes on with the next window
NextWindow ==
  /\ batch.status = "running"
  /\ WindowSettled
  /\ batch.i + CONCURRENCY_LIMIT < Len(batch.events)
  /\ batch' = [batch EXCEPT !.i = batch.i + CONCURRENCY_LIMIT,
                            !.results = batch.results \o SelectSeq(BatchResults, IsSuccess),
                            !.errors = batch.errors \o SelectSeq(BatchResults, IsError)]
  /\ calls' = StartWindow(batch.events, batch.i + CONCURRENCY_LIMIT)
  /\ UNCHANGED <<table, now, admitted, idStream>>

\* the last window is collected and the report is returned
FinishBatch ==
  /\ batch.status = "running"
  /\ WindowSettled
  /\ batch.i + CONCURRENCY_LIMIT >= Len(batch.events)
  /\ LET results == batch.results \o SelectSeq(BatchResults, IsSuccess)
         errors == batch.errors \o SelectSeq(BatchResults, IsError)
     IN batch' = [batch EXCEPT !.status = "done",
                               !.i = batch.i + CONCURRENCY_LIMIT,
                               !.results = results,
                               !.errors = errors,
                               !.report = [total |-> Len(batch.events),
                                           successful |-> Len(results),
                                           failed |-> Len(errors)]]
  /\ calls' = [id \in ProcIds |-> calls[id]]
  /\ UNCHANGED <<table, now, admitted, idStream>>

\* the response of the batch call has been delivered
ReturnBatch ==
  /\ batch.status \in {"done", "failed"}
  /\ batch' = NoBatch
  /\ UNCHANGED <<table, now, calls, admitted, idStream>>

----------------------------------------------------------------------------
(* sessionService.createSession *)

\* the session data the service hands to the repository
sessionData(sessionId, externalId, metadata) ==
  [sessionId |-> sessionId, externalId |-> externalId, userAgent |-> Null,
   ipAddress |-> Null, status |-> "active", stepsTaken |-> 0, metadata |-> metadata]

StartCreateSession(p, sessionId, externalId, metadata) ==
  /\ calls[p].op = "idle"
  /\ \E clock \in Clock :
       /\ calls' = [calls EXCEPT ![p] =
            [NewCall("createSession", "putSession", sessionId,
                     [sessionId |-> sessionId, externalId |-> externalId,
                      metadata |-> metadata]) EXCEPT
               !.updated = createSessionItem(sessionData(sessionId, externalId, metadata),
                                             clock)]]
       /\ now' = clock
  /\ Admit
  /\ UNCHANGED <<table, batch, idStream>>

CreateSessionPutIfAbsent(id) ==
  /\ calls[id].op = "createSession" /\ calls[id].pc = "putSession"
  /\ IF getSession(table, calls[id].sessionId) = NoItem
     THEN /\ table' = putItem(table, calls[id].updated)
          /\ calls' = [calls EXCEPT ![id].pc = "done"]
     ELSE /\ table' = table
          /\ calls' = [calls EXCEPT ![id] = Thrown(calls[id], "InternalError")]
  /\ UNCHANGED <<now, batch, admitted, idStream>>

\* sessionRepository.createSession: an unconditional PutItem of the item
CreateSessionPut(id) ==
  /\ calls[id].op = "createSession" /\ calls[id].pc = "putSession"
  /\ table' = putItem(table, calls[id].updated)
  /\ calls' = [calls EXCEPT ![id].pc = "done"]
  /\ UNCHANGED <<now, batch, admitted, idStream>>

----------------------------------------------------------------------------
(* eventService.deleteEvent *)

StartDeleteEvent(p, sessionId, eventId, timestamp) ==
  /\ calls[p].op = "idle"
  /\ calls' = [calls EXCEPT ![p] =
       LET c == NewCall("deleteEvent", "delItem", sessionId,
                        [eventId |-> eventId, timestamp |-> timestamp])
       IN IF validateSessionId(sessionId) THEN c ELSE Thrown(c, "ValidationError")]
  /\ Admit
  /\ UNCHANGED <<table, now, batch, idStream>>

\* eventRepository.deleteEvent: an unconditional DeleteItem on the event key
DeleteEventItem(id) ==
  /\ calls[id].op = "deleteEvent" /\ calls[id].pc = "delItem"
  /\ table' = deleteItem(table, SessionPK(calls[id].sessionId),
                         EventSK(calls[id].input.timestamp, calls[id].input.eventId))
  /\ calls' = [calls EXCEPT ![id].pc = "decGet"]
  /\ UNCHANGED <<now, batch, admitted, idStream>>

\* deleteEvent decrements only if (session && session.stepsTaken > 0)
decrementGuard(session) == session # NoItem /\ session.stepsTaken > 0

DeleteEventDecGet(id) ==
  /\ calls[id].op = "deleteEvent" /\ calls[id].pc = "decGet"
  /\ LET c == calls[id]
         session == getSession(table, c.sessionId)
     IN calls' = [calls EXCEPT ![id] =
          IF decrementGuard(session)
          THEN [c EXCEPT !.pc = "updGet",
                         !.updates = [stepsTaken |-> session.stepsTaken - 1,
                                      updatedAt |-> ToISOString(now)]]
          ELSE Returned(c)]
  /\ UNCHANGED <<table, now, batch, admitted, idStream>>

----------------------------------------------------------------------------
(* eventService.updateEvent *)

\* JavaScript truthiness of a string-valued field
Truthy(value) == value \notin {Null, ""}

\* FALSE when updateEvent throws ValidationError for its request body:
\* eventType is validated if (updates.eventType), eventData if it is present
eventUpdateOk(updates) ==
  /\ ("eventType" \in DOMAIN updates /\ Truthy(updates.eventType))
       => validateEventType(updates.eventType)
  /\ "eventData" \in DOMAIN updates => validateObject(updates.eventData)

StartUpdateEvent(p, sessionId, eventId, timestamp, updates) ==
  /\ calls[p].op = "idle"
  /\ LET c == NewCall("updateEvent", "updItem", sessionId,
                      [eventId |-> eventId, timestamp |-> timestamp, body |-> updates])
     IN IF ~validateSessionId(sessionId) \/ ~eventUpdateOk(updates)
        THEN /\ calls' = [calls EXCEPT ![p] = Thrown(c, "ValidationError")]
             /\ now' = now
        ELSE \E clock \in Clock :
               /\ calls' = [calls EXCEPT ![p] =
                    [c EXCEPT !.updates = [updatedAt |-> ToISOString(clock)] @@ updates]]
               /\ now' = clock
  /\ Admit
  /\ UNCHANGED <<table, batch, idStream>>

\* eventRepository.updateEvent: UpdateItem on the event key; the store refuses
\* an update of a key attribute, which the client reports as InternalError
UpdateEventItem(id) ==
  /\ calls[id].op = "updateEvent" /\ calls[id].pc = "updItem"
  /\ LET c == calls[id]
         pk == SessionPK(c.sessionId)
         sk == EventSK(c.input.timestamp, c.input.eventId)
     IN IF DOMAIN c.updates \cap {"PK", "SK"} # {}
        THEN /\ calls' = [calls EXCEPT ![id] = Thrown(c, "InternalError")]
             /\ table' = table
        ELSE /\ table' = updateItem(table, pk, sk, c.updates)
             /\ calls' = [calls EXCEPT ![id] =
                  [Returned(c) EXCEPT !.updated = getItem(table', pk, sk)]]
  /\ UNCHANGED <<now, batch, admitted, idStream>>

----------------------------------------------------------------------------
(* sessionService.updateSession *)

filteredUpdatesAll(updates) == updates

allowedUpdates == {"externalId", "status", "metadata", "stepsTaken"}

\* the request fields on the allow-list
filteredUpdates(updates) ==
  [key \in DOMAIN updates \cap allowedUpdates |-> updates[key]]

StartUpdateSession(p, sessionId, updates) ==
  /\ calls[p].op = "idle"
  /\ calls' = [calls EXCEPT ![p] =
       LET c == NewCall("updateSession", "updGet", sessionId, updates)
       IN IF ~validateSessionId(sessionId) THEN Thrown(c, "ValidationError")
          ELSE IF DOMAIN filteredUpdates(updates) = {}
          THEN Thrown(c, "ValidationError")
          ELSE [c EXCEPT !.updates = filteredUpdates(updates)]]
  /\ Admit
  /\ UNCHANGED <<table, now, batch, idStream>>

----------------------------------------------------------------------------
(* sessionService.deleteSession / sessionRepository.deleteSession *)

\* all items of the session's partition
Partition(t, sessionId) == {x \in t : x.PK = SessionPK(sessionId)}

StartDeleteSession(p, sessionId) ==
  /\ calls[p].op = "idle"
  /\ calls' = [calls EXCEPT ![p] =
       LET c == [NewCall("deleteSession", "query", sessionId, NoUpdates) EXCEPT
                   !.pre = Partition(table, sessionId)]
       IN IF validateSessionId(sessionId) THEN c ELSE Thrown(c, "ValidationError")]
  /\ Admit
  /\ UNCHANGED <<table, now, batch, idStream>>

deleteSessionQueryEventsOnly(t, sessionId) ==
  queryItems(t, SessionPK(sessionId), EventPrefix)

deleteSessionQueryMetadataOnly(t, sessionId) ==
  queryItems(t, SessionPK(sessionId), MetadataSK)

deleteSessionQueryDescending(t, sessionId) ==
  queryItemsDescending(t, SessionPK(sessionId), <<>>)

\* the query of sessionRepository.deleteSession: PK = :pk, no sort-key condition
deleteSessionQuery(t, sessionId) == queryItems(t, SessionPK(sessionId), <<>>)

\* the query that enumerates the partition
DeleteSessionQuery(id) ==
  /\ calls[id].op = "deleteSession" /\ calls[id].pc = "query"
  /\ LET c == calls[id]
         items == deleteSessionQuery(table, c.sessionId)
     IN calls' = [calls EXCEPT ![id] =
          IF items = <<>> THEN [Returned(c) EXCEPT !.value = 0]
          ELSE [c EXCEPT !.pc = "delete", !.items = items, !.idx = 1]]
  /\ UNCHANGED <<table, now, batch, admitted, idStream>>

\* one iteration of the delete loop
DeleteSessionItem(id) ==
  /\ calls[id].op = "deleteSession" /\ calls[id].pc = "delete"
  /\ LET c == calls[id]
         item == c.items[c.idx]
     IN /\ table' = deleteItem(table, item.PK, item.SK)
        /\ calls' = [calls EXCEPT ![id] =
             IF c.idx = Len(c.items)
             THEN [Returned(c) EXCEPT !.value = Len(c.items), !.items = <<>>, !.idx = 0]
             ELSE [c EXCEPT !.idx = c.idx + 1]]
  /\ UNCHANGED <<now, batch, admitted, idStream>>

----------------------------------------------------------------------------
(* sessionService.getSessionTimeline / sessionRepository.getSessionTimeline *)

StartGetSessionTimeline(p, sessionId) ==
  /\ calls[p].op = "idle"
  /\ calls' = [calls EXCEPT ![p] = NewCall("getSessionTimeline", "reads", sessionId, NoUpdates)]
  /\ Admit
  /\ UNCHANGED <<table, now, batch, idStream>>

\* Math.round(a / b)
RoundDiv(a, b) == (2 * a + b) \div (2 * b)

\* new Date(isoString) in milliseconds; one unit of the clock is one second
getTime(s) == ParseDate(s) * 1000

\* getSessionAnalytics: the duration between the first and the last event of
\* the query result, in seconds
duration(events) ==
  IF events = <<>> THEN 0
  ELSE LET firstEvent == events[1].timestamp
           lastEvent == events[Len(events)].timestamp
       IN IF firstEvent # NoTimestamp /\ lastEvent # NoTimestamp
          THEN RoundDiv(getTime(lastEvent) - getTime(firstEvent), 1000) ELSE 0

eventBreakdownPresence(events) ==
  [type \in {events[i].eventType : i \in DOMAIN events} |-> 1]

RECURSIVE eventBreakdown(_)
\* events.forEach(event => eventBreakdown[event.eventType] =
\*                          (eventBreakdown[event.eventType] || 0) + 1)
eventBreakdown(events) ==
  IF events = <<>> THEN [type \in {} |-> 0]
  ELSE LET acc == eventBreakdown(SubSeq(events, 1, Len(events) - 1))
           last == events[Len(events)].eventType
       IN [type \in DOMAIN acc \cup {last} |->
             IF type = last THEN (IF type \in DOMAIN acc THEN acc[type] ELSE 0) + 1
             ELSE acc[type]]

\* events.map(e => e.eventType)
eventTypes(events) == [i \in DOMAIN events |-> events[i].eventType]

\* Array.prototype.includes
includes(array, value) == \E i \in DOMAIN array : array[i] = value

EngagedTypes == {"click", "page_view", "quiz_start"}

conversionFunnelGated(events) ==
  LET types == eventTypes(events)
      landed == includes(types, "landing")
      engaged == landed /\ \E i \in DOMAIN types : types[i] \in EngagedTypes
      startedCheckout == engaged /\ includes(types, "checkout_start")
  IN [landed |-> landed, engaged |-> engaged, startedCheckout |-> startedCheckout,
      converted |-> startedCheckout /\ includes(types, "checkout_complete")]

\* getSessionAnalytics: the four stages of the funnel
conversionFunnel(events) ==
  LET types == eventTypes(events)
  IN [landed |-> includes(types, "landing"),
      engaged |-> \E i \in DOMAIN types : types[i] \in EngagedTypes,
      startedCheckout |-> includes(types, "checkout_start"),
      converted |-> includes(types, "checkout_complete")]

\* what getSessionAnalytics returns for the timeline it has loaded
analyticsReport(metadata, events) ==
  [sessionId |-> metadata.sessionId,
   status |-> metadata.status,
   duration |-> duration(events),
   eventCount |-> Len(events),
   stepsTaken |-> metadata.stepsTaken,
   eventBreakdown |-> eventBreakdown(events),
   conversionFunnel |-> conversionFunnel(events)]

StartGetSessionAnalytics(p, sessionId) ==
  /\ calls[p].op = "idle"
  /\ calls' = [calls EXCEPT ![p] = NewCall("getSessionAnalytics", "reads", sessionId, NoUpdates)]
  /\ Admit
  /\ UNCHANGED <<table, now, batch, idStream>>

\* the calls that load a session through sessionRepository.getSessionTimeline
TimelineOps == {"getSessionTimeline", "getSessionAnalytics"}

timelineFoundByEvents(metadata, events) == metadata # NoItem \/ events # <<>>

\* FALSE when getSessionTimeline throws NotFoundError: if (!timeline.metadata)
timelineFound(metadata, events) == metadata # NoItem

\* both reads of Promise.all have answered
TimelineOutcome(c) ==
  IF c.got # {"metadata", "events"} THEN c
  ELSE IF timelineFound(c.session, c.items)
  THEN [Returned(c) EXCEPT !.value = IF c.op = "getSessionAnalytics"
                                      THEN duration(c.items) ELSE Len(c.items),
                           !.report = IF c.op = "getSessionAnalytics"
                                      THEN analyticsReport(c.session, c.items)
                                      ELSE NoReport]
  ELSE [Thrown(c, "NotFoundError") EXCEPT !.items = <<>>]

TimelineGetSession(id) ==
  /\ calls[id].op \in TimelineOps /\ calls[id].pc = "reads"
  /\ "metadata" \notin calls[id].got
  /\ calls' = [calls EXCEPT ![id] =
       TimelineOutcome([calls[id] EXCEPT !.session = getSession(table, calls[id].sessionId),
                                        !.got = calls[id].got \cup {"metadata"}])]
  /\ UNCHANGED <<table, now, batch, admitted, idStream>>

TimelineGetEvents(id) ==
  /\ calls[id].op \in TimelineOps /\ calls[id].pc = "reads"
  /\ "events" \notin calls[id].got
  /\ calls' = [calls EXCEPT ![id] =
       TimelineOutcome([calls[id] EXCEPT !.items = getSessionEvents(table, calls[id].sessionId),
                                        !.got = calls[id].got \cup {"events"}])]
  /\ UNCHANGED <<table, now, batch, admitted, idStream>>

----------------------------------------------------------------------------
(* handleGetUserSessions / sessionService.getUserSessionsFiltered /          *)
(* sessionRepository.getSessionsByExternalId                                 *)

\* the limit query parameter: absent, or the integer parseInt reads from it
NoLimitParam == [given |-> FALSE, value |-> 0]
LimitParam(n) == [given |-> TRUE, value |-> n]

\* handleGetUserSessions: limit ? Math.min(parseInt(limit, 10), 100) : 50
controllerLimit(param) == IF param.given THEN Min(param.value, 100) ELSE 50

\* getUserSessionsFiltered: options.limit || 50
serviceLimit(limit) == IF limit # 0 THEN limit ELSE 50

\* getUserSessionsFiltered: the summary of the sessions the query returned
\* (a null firstSeen or lastActive reads as NoTimestamp)
userSummary(sessions) ==
  [totalSessions |-> Len(sessions),
   firstSeen |-> IF Len(sessions) > 0 THEN sessions[Len(sessions)].createdAt
                 ELSE NoTimestamp,
   lastActive |-> IF Len(sessions) > 0 THEN sessions[1].updatedAt ELSE NoTimestamp]

StartGetUserSessions(p, externalId, param) ==
  /\ calls[p].op = "idle"
  /\ calls' = [calls EXCEPT ![p] =
       LET c == [NewCall("getUserSessions", "queryIndex", Null,
                         [externalId |-> externalId, limit |-> param])
                   EXCEPT !.idx = serviceLimit(controllerLimit(param))]
       IN IF validateRequired(externalId) THEN c ELSE Thrown(c, "ValidationError")]
  /\ Admit
  /\ UNCHANGED <<table, now, batch, idStream>>

\* getSessionsByExternalId: the Query on GSI1 with Limit = limit; the store
\* refuses a Limit below 1, which the client reports as InternalError
UserSessionsQuery(id) ==
  /\ calls[id].op = "getUserSessions" /\ calls[id].pc = "queryIndex"
  /\ LET c == calls[id]
     IN IF c.idx < 1
        THEN calls' = [calls EXCEPT ![id] = Thrown(c, "InternalError")]
        ELSE \E items \in queryIndex(table, <<"USER#", c.input.externalId>>, c.idx) :
               calls' = [calls EXCEPT ![id] =
                 [Returned(c) EXCEPT !.items = items, !.report = userSummary(items)]]
  /\ UNCHANGED <<table, now, batch, admitted, idStream>>

----------------------------------------------------------------------------
(* Store failures: the client wraps what the SDK throws in InternalError *)

SwallowedNever(c) == FALSE

\* the steps whose failure the caller logs and swallows
Swallowed(c) ==
  \/ c.op = "trackEvent" /\ c.pc \in {"incGet", "updGet", "updPut"}
  \/ c.op = "deleteEvent" /\ c.pc \in {"decGet", "updGet", "updPut"}

StoreFailsRestores(id) ==
  /\ InFlight(id)
  /\ calls' = [calls EXCEPT ![id] =
       IF Swallowed(calls[id]) THEN Returned(calls[id])
       ELSE [Thrown(calls[id], "InternalError") EXCEPT !.items = <<>>, !.session = NoItem]]
  /\ table' = table \cup calls[id].pre
  /\ UNCHANGED <<now, batch, admitted, idStream>>

\* the store operation the call is waiting for fails
StoreFails(id) ==
  /\ InFlight(id)
  /\ calls' = [calls EXCEPT ![id] =
       IF Swallowed(calls[id]) THEN Returned(calls[id])
       ELSE [Thrown(calls[id], "InternalError") EXCEPT !.items = <<>>, !.session = NoItem]]
  /\ UNCHANGED <<table, now, batch, admitted, idStream>>

----------------------------------------------------------------------------
(* Requests and the clock *)

StartTrackEvent(p, item) ==
  /\ calls[p].op = "idle"
  /\ NeedsId(item) => FreeIds > 0
  /\ calls' = [calls EXCEPT ![p] = trackEventStart(item)]
  /\ Admit
  /\ UNCHANGED <<table, now, batch, idStream>>

\* the response of a request has been delivered
Return(p) ==
  /\ calls[p].pc = "done"
  /\ calls' = [calls EXCEPT ![p] = Idle]
  /\ UNCHANGED <<table, now, batch, admitted, idStream>>

NoCallInFlight == \A id \in DOMAIN calls : calls[id].op = "idle"

Init ==
  /\ table = {}
  /\ now = ClockStart
  /\ calls = [p \in ProcIds |-> Idle]
  /\ batch = NoBatch
  /\ admitted = 0
  /\ idStream \in Orderings(EventIds)

----------------------------------------------------------------------------
(* Request inputs *)

\* a session id no createSession request uses
MissingSession == "s0"

TrackItem(sessionId, eventType, eventData) ==
  [sessionId |-> sessionId, eventType |-> eventType, eventData |-> eventData]

Good == TrackItem("s1", "landing", "{}")
BadType == TrackItem("s1", "bogus", "{}")
BadData == TrackItem("s1", "click", "[]")
Orphan == TrackItem(MissingSession, "landing", "{}")
\* no eventType in the request
NoType == TrackItem("s1", Null, "{}")

TrackItems == {Good, BadType, BadData, Orphan, NoType}

\* the keys of the stored events, and one key under which nothing is stored
DeleteKeys ==
  {EventKey(x) : x \in StoredEvents}
    \cup {[sessionId |-> "s1", timestamp |-> ToISOString(ClockStart), eventId |-> "0"]}

UpdateBodies ==
  {[status |-> "completed"], [stepsTaken |-> 0 - 1], [sessionId |-> "s2"]}

\* n items equal to base, except the item at input index k, which is odd
BatchOf(n, base, odd, k) == [j \in 1..n |-> IF j - 1 = k THEN odd ELSE base]

\* two valid items on the session, at the input indexes first and second,
\* an invalid item at index 1, and items for a missing session elsewhere
BatchWithTwo(n, first, second) ==
  [j \in 1..n |-> IF j - 1 \in {first, second} THEN Good
                  ELSE IF j - 1 = 1 THEN BadType ELSE Orphan]

BatchesWithTwo ==
  {[isArray |-> TRUE, events |-> BatchWithTwo(MaxBatchLen, 0, second)] :
     second \in {2, CONCURRENCY_LIMIT}}

\* short batches: two valid items in one window, or in two windows
SmallBatches ==
  {[isArray |-> TRUE, events |-> <<Good, BadType, Good>>],
   [isArray |-> TRUE, events |-> BatchWithTwo(CONCURRENCY_LIMIT + 1, 0, CONCURRENCY_LIMIT)]}

BatchInputs ==
  {[isArray |-> FALSE, events |-> <<>>], [isArray |-> TRUE, events |-> <<>>]}
    \cup {[isArray |-> TRUE, events |-> BatchOf(n, Orphan, BadType, 1)] :
            n \in {MaxBatchLen, BatchCap, BatchCap + 1}}
    \cup BatchesWithTwo

\* five items of which exactly one, at any input index, has an invalid type
BatchOfFive ==
  {[isArray |-> TRUE, events |-> BatchOf(CONCURRENCY_LIMIT, Good, BadType, k)] :
     k \in 0..(CONCURRENCY_LIMIT - 1)}

----------------------------------------------------------------------------
(* Specifications *)

\* one step of the call id
Step(id) ==
  \/ CreateSessionPut(id)
  \/ TrackEventGetSession(id)
  \/ TrackEventPutEvent(id)
  \/ TrackEventIncGet(id)
  \/ RepoUpdateGet(id)
  \/ RepoUpdatePut(id)
  \/ DeleteEventItem(id)
  \/ DeleteEventDecGet(id)
  \/ DeleteSessionQuery(id)
  \/ DeleteSessionItem(id)
  \/ TimelineGetSession(id)
  \/ TimelineGetEvents(id)

\* p is the first idle handler: which idle handler takes a request is immaterial
FirstIdle(p) == \A q \in ProcIds : q > p => calls[q].op # "idle"

\* a session created by an earlier createSession request
InitSession ==
  /\ table = {createSessionItem(sessionData("s1", Null, "{}"), ClockStart)}
  /\ now = ClockStart
  /\ calls = [p \in ProcIds |-> Idle]
  /\ batch = NoBatch
  /\ admitted = 0
  /\ idStream \in Orderings(EventIds)

InitRace ==
  /\ table = {createSessionItem(sessionData("s1", Null, "{}"), ClockStart)}
  /\ now = ClockStart
  /\ calls = [p \in ProcIds |-> Idle]
  /\ batch = NoBatch
  /\ admitted = 0
  /\ idStream \in Orderings({IdChars[i] : i \in 1..MaxRaceIds})

\* Requests overlap: each runs in its own Lambda invocation
Next ==
  \/ \E p \in ProcIds :
       /\ admitted < MaxRequests /\ FirstIdle(p)
       /\ \/ StartCreateSession(p, "s1", Null, "{}")
          \/ StartTrackEvent(p, Good)
          \/ \E key \in DeleteKeys :
               StartDeleteEvent(p, key.sessionId, key.eventId, key.timestamp)
          \/ \E updates \in UpdateBodies : StartUpdateSession(p, "s1", updates)
          \/ StartDeleteSession(p, "s1")
          \/ StartGetSessionTimeline(p, "s1")
  \/ \E p \in ProcIds : Step(p)
  \/ \E p \in ProcIds : Return(p)

Spec == InitRace /\ [][Next]_vars

SeqProc == 0 - 1

\* Requests one after another: a request arrives when none is in progress
NextSeq ==
  \/ /\ NoCallInFlight
     /\ \/ StartCreateSession(SeqProc, "s1", Null, "{}")
        \/ \E item \in TrackItems : StartTrackEvent(SeqProc, item)
        \/ \E key \in DeleteKeys :
             StartDeleteEvent(SeqProc, key.sessionId, key.eventId, key.timestamp)
        \/ StartDeleteSession(SeqProc, "s1")
        \/ StartGetSessionTimeline(SeqProc, "s1")
  \/ Step(SeqProc)
  \/ Return(SeqProc)

SpecSeq == Init /\ [][NextSeq]_vars

\* Requests one after another, while store operations may fail
NextSeqFail ==
  \/ /\ NoCallInFlight
     /\ \/ StartCreateSession(SeqProc, "s1", Null, "{}")
        \/ StartTrackEvent(SeqProc, Good)
        \/ \E key \in DeleteKeys :
             StartDeleteEvent(SeqProc, key.sessionId, key.eventId, key.timestamp)
        \/ StartDeleteSession(SeqProc, "s1")
        \/ StartGetSessionTimeline(SeqProc, "s1")
  \/ Step(SeqProc)
  \/ StoreFails(SeqProc)
  \/ Return(SeqProc)

SpecSeqFail == Init /\ [][NextSeqFail]_vars

\* trackEvent and deleteEvent requests on one session, one after another
NextSteps ==
  \/ /\ NoCallInFlight
     /\ \/ StartTrackEvent(SeqProc, Good)
        \/ \E key \in DeleteKeys :
             StartDeleteEvent(SeqProc, key.sessionId, key.eventId, key.timestamp)
  \/ TrackEventGetSession(SeqProc)
  \/ TrackEventPutEvent(SeqProc)
  \/ TrackEventIncGet(SeqProc)
  \/ RepoUpdateGet(SeqProc)
  \/ RepoUpdatePut(SeqProc)
  \/ DeleteEventItem(SeqProc)
  \/ DeleteEventDecGet(SeqProc)
  \/ Return(SeqProc)

SpecSteps == InitSession /\ [][NextSteps]_vars

\* one step of a task of the running batch
TaskStep(id) ==
  \/ TrackEventGetSession(id)
  \/ TrackEventPutEvent(id)
  \/ TrackEventIncGet(id)
  \/ RepoUpdateGet(id)
  \/ RepoUpdatePut(id)

\* Batch ingestion on an existing session
NextBatch ==
  \/ \E input \in BatchInputs : StartBatch(input)
  \/ \E id \in TaskIds : TaskStep(id)
  \/ NextWindow
  \/ FinishBatch
  \/ ReturnBatch

SpecBatch == InitRace /\ [][NextBatch]_vars

\* Batch ingestion while store operations may fail
NextBatchFail ==
  \/ \E input \in SmallBatches : StartBatch(input)
  \/ \E id \in TaskIds : TaskStep(id)
  \/ \E id \in TaskIds : StoreFails(id)
  \/ NextWindow
  \/ FinishBatch
  \/ ReturnBatch

SpecBatchFail == InitRace /\ [][NextBatchFail]_vars

\* the batch of five arrives when the clock has reached MaxClock, and the
\* generator returns its ids in a fixed order
InitFive ==
  /\ table = {createSessionItem(sessionData("s1", Null, "{}"), ClockStart)}
  /\ now = MaxClock
  /\ calls = [p \in ProcIds |-> Idle]
  /\ batch = NoBatch
  /\ admitted = 0
  /\ idStream = SubSeq(IdChars, 1, CONCURRENCY_LIMIT)

NextFive ==
  \/ \E input \in BatchOfFive : StartBatch(input)
  \/ \E id \in TaskIds : TaskStep(id)
  \/ FinishBatch
  \/ ReturnBatch

SpecFive == InitFive /\ [][NextFive]_vars

\* request bodies of updateSession: allow-listed fields, other fields, both
UpdateRequests ==
  {[status |-> "completed"],
   [status |-> "paused"],
   [metadata |-> "{k:1}", externalId |-> "u2"],
   [stepsTaken |-> 7, status |-> "completed", sessionId |-> "s2",
    createdAt |-> ToISOString(0), itemType |-> "EVENT"],
   [sessionId |-> "s2", userAgent |-> "ua"]}

\* createSession and updateSession requests on one session id, one after
\* another
NextUpdate ==
  \/ /\ NoCallInFlight
     /\ \/ \E externalId \in {Null, "u1"} :
             StartCreateSession(SeqProc, "s1", externalId, "{}")
        \/ \E updates \in UpdateRequests : StartUpdateSession(SeqProc, "s1", updates)
  \/ CreateSessionPut(SeqProc)
  \/ RepoUpdateGet(SeqProc)
  \/ RepoUpdatePut(SeqProc)
  \/ Return(SeqProc)

SpecUpdate == Init /\ [][NextUpdate]_vars

\* request bodies of updateEvent
EventUpdateBodies ==
  {[eventType |-> "click"], [eventType |-> ""], [eventType |-> "bogus"],
   [eventData |-> "[]"], [timestamp |-> ToISOString(MaxClock + 1)]}

\* a session on which two trackEvent requests have been served, one clock
\* unit apart
InitEvents ==
  /\ table = {[createSessionItem(sessionData("s1", Null, "{}"), ClockStart - 1)
                EXCEPT !.stepsTaken = 2, !.updatedAt = ToISOString(ClockStart)],
              createEventItem("s1", "landing", "{}", IdChars[1], ClockStart - 1),
              createEventItem("s1", "click", "{}", IdChars[2], ClockStart)}
  /\ now = ClockStart
  /\ calls = [p \in ProcIds |-> Idle]
  /\ batch = NoBatch
  /\ admitted = 0
  /\ idStream = <<IdChars[3]>>

\* trackEvent, updateEvent, deleteEvent and getSessionAnalytics requests on
\* one session, one after another
NextEvents ==
  \/ /\ NoCallInFlight
     /\ admitted < MaxRequests
     /\ \/ StartTrackEvent(SeqProc, Good)
        \/ \E key \in DeleteKeys, updates \in EventUpdateBodies :
             StartUpdateEvent(SeqProc, key.sessionId, key.eventId, key.timestamp, updates)
        \/ \E key \in DeleteKeys :
             StartDeleteEvent(SeqProc, key.sessionId, key.eventId, key.timestamp)
        \/ StartGetSessionAnalytics(SeqProc, "s1")
  \/ TrackEventGetSession(SeqProc)
  \/ TrackEventPutEvent(SeqProc)
  \/ TrackEventIncGet(SeqProc)
  \/ RepoUpdateGet(SeqProc)
  \/ RepoUpdatePut(SeqProc)
  \/ UpdateEventItem(SeqProc)
  \/ DeleteEventItem(SeqProc)
  \/ DeleteEventDecGet(SeqProc)
  \/ TimelineGetSession(SeqProc)
  \/ TimelineGetEvents(SeqProc)
  \/ Return(SeqProc)

SpecEvents == InitEvents /\ [][NextEvents]_vars

\* the external ids of the users
UserIds == {"u1", "u2"}

LimitParams == {NoLimitParam, LimitParam(0 - 1), LimitParam(0), LimitParam(1), LimitParam(2)}

\* createSession, updateSession and user-session requests, one after
\* another
NextUsers ==
  \/ /\ NoCallInFlight
     /\ \/ \E sessionId \in SessionIds \cup {Null}, externalId \in UserIds \cup {Null} :
             StartCreateSession(SeqProc, sessionId, externalId, "{}")
        \/ \E sessionId \in SessionIds :
             StartUpdateSession(SeqProc, sessionId, [externalId |-> "u2"])
        \/ \E externalId \in UserIds, param \in LimitParams :
             StartGetUserSessions(SeqProc, externalId, param)
  \/ CreateSessionPut(SeqProc)
  \/ RepoUpdateGet(SeqProc)
  \/ RepoUpdatePut(SeqProc)
  \/ UserSessionsQuery(SeqProc)
  \/ Return(SeqProc)

\* an empty table; no event id is drawn
InitUsers ==
  /\ table = {}
  /\ now = ClockStart
  /\ calls = [p \in ProcIds |-> Idle]
  /\ batch = NoBatch
  /\ admitted = 0
  /\ idStream = <<>>

SpecUsers == InitUsers /\ [][NextUsers]_vars

\* event types in and out of the stages of the conversion funnel
FunnelTypes ==
  {"landing", "click", "page_view", "quiz_start", "checkout_start",
   "checkout_complete", "custom"}

\* a session without events, and a generator that returns its ids in a
\* fixed order
InitAnalytics ==
  /\ table = {createSessionItem(sessionData("s1", Null, "{}"), ClockStart)}
  /\ now = ClockStart
  /\ calls = [p \in ProcIds |-> Idle]
  /\ batch = NoBatch
  /\ admitted = 0
  /\ idStream = SubSeq(IdChars, 1, MaxIds)

\* trackEvent requests of any funnel type and getSessionAnalytics requests
\* on one session, one after another
NextAnalytics ==
  \/ /\ NoCallInFlight
     /\ \/ \E type \in FunnelTypes : StartTrackEvent(SeqProc, TrackItem("s1", type, "{}"))
        \/ StartGetSessionAnalytics(SeqProc, "s1")
  \/ TrackEventGetSession(SeqProc)
  \/ TrackEventPutEvent(SeqProc)
  \/ TrackEventIncGet(SeqProc)
  \/ RepoUpdateGet(SeqProc)
  \/ RepoUpdatePut(SeqProc)
  \/ TimelineGetSession(SeqProc)
  \/ TimelineGetEvents(SeqProc)
  \/ Return(SeqProc)

SpecAnalytics == InitAnalytics /\ [][NextAnalytics]_vars

\* trackEvent, deleteEvent and updateSession requests on a session that has
\* events, one after another
NextTimes ==
  \/ /\ NoCallInFlight
     /\ \/ StartTrackEvent(SeqProc, Good)
        \/ \E key \in DeleteKeys :
             StartDeleteEvent(SeqProc, key.sessionId, key.eventId, key.timestamp)
        \/ \E updates \in UpdateBodies : StartUpdateSession(SeqProc, "s1", updates)
  \/ TrackEventGetSession(SeqProc)
  \/ TrackEventPutEvent(SeqProc)
  \/ TrackEventIncGet(SeqProc)
  \/ RepoUpdateGet(SeqProc)
  \/ RepoUpdatePut(SeqProc)
  \/ DeleteEventItem(SeqProc)
  \/ DeleteEventDecGet(SeqProc)
  \/ Return(SeqProc)

SpecTimes == InitEvents /\ [][NextTimes]_vars

\* createSession, trackEvent, deleteEvent, deleteSession and trackBatchEvents
\* requests, each of which runs to completion before the next one arrives
NextSeqBatch ==
  \/ /\ NoCallInFlight
     /\ batch.status = "idle"
     /\ \/ StartCreateSession(SeqProc, "s1", Null, "{}")
        \/ \E item \in {Good, Orphan} : StartTrackEvent(SeqProc, item)
        \/ \E key \in DeleteKeys :
             StartDeleteEvent(SeqProc, key.sessionId, key.eventId, key.timestamp)
        \/ StartDeleteSession(SeqProc, "s1")
        \/ \E input \in SmallBatches : StartBatch(input)
  \/ CreateSessionPut(SeqProc)
  \/ DeleteEventItem(SeqProc)
  \/ DeleteEventDecGet(SeqProc)
  \/ DeleteSessionQuery(SeqProc)
  \/ DeleteSessionItem(SeqProc)
  \/ \E id \in DOMAIN calls : TaskStep(id)
  \/ NextWindow
  \/ FinishBatch
  \/ ReturnBatch
  \/ Return(SeqProc)

SpecSeqBatch == InitAnalytics /\ [][NextSeqBatch]_vars

\* the store operation the task id is waiting for completes, with success
\* or with failure
TaskCompletes(id) == id \in TaskIds /\ (TaskStep(id) \/ StoreFails(id))

\* Batch ingestion of a bounded number of calls while store operations
\* may fail
NextBatchLive ==
  \/ \E input \in SmallBatches : admitted < MaxLiveCalls /\ StartBatch(input)
  \/ \E id \in TaskIds : TaskStep(id)
  \/ \E id \in TaskIds : StoreFails(id)
  \/ NextWindow
  \/ FinishBatch
  \/ ReturnBatch

\* Batch ingestion where every store operation eventually completes, and
\* the event loop resumes trackBatchEvents once the window has settled
SpecBatchLive ==
  /\ InitAnalytics
  /\ [][NextBatchLive]_vars
  /\ \A id \in 0..(MaxBatchLen - 1) : WF_vars(TaskCompletes(id))
  /\ WF_vars(NextWindow)
  /\ WF_vars(FinishBatch)

\* two valid items of one window
BatchOfTwo == [isArray |-> TRUE, events |-> <<Good, Good>>]

\* trackEvent requests that overlap, as two Lambda invocations or as the
\* tasks of one batch window
NextRace ==
  \/ \E p \in ProcIds : FirstIdle(p) /\ StartTrackEvent(p, Good)
  \/ StartBatch(BatchOfTwo)
  \/ \E id \in DOMAIN calls : TaskStep(id)
  \/ FinishBatch
  \/ ReturnBatch
  \/ \E p \in ProcIds : Return(p)

SpecRace == InitRace /\ [][NextRace]_vars

----------------------------------------------------------------------------
(* Properties *)

EventsOf(sessionId) == {x \in StoredEvents : x.PK = SessionPK(sessionId)}

Range(seq) == {seq[i] : i \in DOMAIN seq}

\* the items are in ascending sort-key order and in ascending timestamp order
Ascending(items) ==
  \A i, j \in DOMAIN items :
    i < j => /\ LexLess(items[i].SK, items[j].SK)
             /\ ParseDate(items[i].timestamp) <= ParseDate(items[j].timestamp)

\* C1: getSessionEvents of a session returns exactly the event items stored
\* for it, each once and no metadata item, in ascending timestamp order, which
\* is the order of their sort keys; the timeline of a session lists them so.
C1_EventsAscending ==
  /\ \A s \in SessionIds :
       LET events == getSessionEvents(table, s)
       IN /\ Range(events) = EventsOf(s)
          /\ Len(events) = Cardinality(EventsOf(s))
          /\ \A i \in DOMAIN events : events[i].itemType = "EVENT"
          /\ Ascending(events)
  /\ \A p \in ProcIds :
       calls[p].op = "getSessionTimeline" /\ Succeeded(p)
         => calls[p].items = getSessionEvents(table, calls[p].sessionId)

\* a timeline that lists events tracked at increasing timestamps
C1_Witness ==
  \E p \in ProcIds :
    /\ calls[p].op = "getSessionTimeline" /\ Succeeded(p)
    /\ Len(calls[p].items) >= 2
    /\ ParseDate(calls[p].items[1].timestamp) < ParseDate(calls[p].items[2].timestamp)

\* C2: a getSessionTimeline call that reads the store without failure ends in
\* NotFoundError whenever the session has no metadata item, whether or not
\* event items are stored under the session; it succeeds when there is one.
C2_TimelineNotFound ==
  \A p \in ProcIds :
    calls[p].op = "getSessionTimeline" /\ IsDone(p) /\ calls[p].error # "InternalError"
      => IF getSession(table, calls[p].sessionId) = NoItem
         THEN calls[p].error = "NotFoundError"
         ELSE calls[p].error = "none"

\* the timeline of a session that has events and no metadata item
C2_Witness ==
  \E p \in ProcIds :
    /\ calls[p].op = "getSessionTimeline" /\ Failed(p, "NotFoundError")
    /\ getSession(table, calls[p].sessionId) = NoItem
    /\ EventsOf(calls[p].sessionId) # {}

\* C3: a trackBatchEvents call whose input is empty or longer than 25 items
\* throws ValidationError in the step in which it is called: no task is
\* started and the table is the one before the call.
C3_RejectedBatch ==
  [][(batch.status = "idle" /\ batch'.status # "idle"
        /\ (Len(batch'.events) = 0 \/ Len(batch'.events) > 25))
       => /\ batch'.status = "failed"
          /\ batch'.error = "ValidationError"
          /\ DOMAIN calls' = ProcIds
          /\ table' = table]_vars

\* a batch of 26 items has been rejected
C3_Witness ==
  /\ batch.status = "failed"
  /\ batch.isArray
  /\ Len(batch.events) = 26
  /\ batch.error = "ValidationError"

\* the input indexes the batch has reported so far
Reported ==
  {batch.results[k].index : k \in DOMAIN batch.results}
    \cup {batch.errors[k].index : k \in DOMAIN batch.errors}

\* the outcome the item alone accounts for, a store failure apart
OwnOutcome(item) ==
  IF ~validateEventType(item.eventType) THEN "ValidationError"
  ELSE IF item.sessionId = MissingSession THEN "NotFoundError"
  ELSE "none"

\* C4: a trackBatchEvents call on 1..25 items never throws; its report has
\* total = input length and successful + failed = total, each input index is
\* reported once, each item's outcome is its own (or a store failure), and
\* the event of every successful item is stored.
C4_BatchReport ==
  /\ Len(batch.events) \in 1..25 => batch.status # "failed"
  /\ batch.status = "done" =>
       /\ batch.error = "none"
       /\ batch.report.total = Len(batch.events)
       /\ batch.report.successful + batch.report.failed = batch.report.total
       /\ batch.report.successful = Len(batch.results)
       /\ batch.report.failed = Len(batch.errors)
       /\ Reported = 0..(Len(batch.events) - 1)
       /\ \A k \in DOMAIN batch.errors :
            batch.errors[k].error
              \in {OwnOutcome(batch.events[batch.errors[k].index + 1]), "InternalError"}
                    \ {"none"}
       /\ \A k \in DOMAIN batch.results :
            LET r == batch.results[k]
            IN /\ OwnOutcome(batch.events[r.index + 1]) = "none"
               /\ \E x \in EventsOf(r.sessionId) :
                    x.eventId = r.eventId /\ x.timestamp = r.timestamp

\* a report with a stored event next to an invalid item, a store failure and
\* an item for a missing session
C4_Witness ==
  /\ batch.status = "done"
  /\ batch.report.successful >= 1
  /\ \E k \in DOMAIN batch.errors : batch.errors[k].error = "ValidationError"
  /\ \E k \in DOMAIN batch.errors : batch.errors[k].error = "InternalError"
  /\ \E k \in DOMAIN batch.errors : batch.errors[k].error = "NotFoundError"

\* C5: the report of a batch of 5 items on an existing session, of which one
\* has an eventType outside the enumeration, has successful = 4, failed = 1
\* and one error entry, whose index is the input position of that item.
C5_OneInvalidOfFive ==
  batch.status = "done" =>
    /\ batch.report.successful = 4
    /\ batch.report.failed = 1
    /\ Len(batch.errors) = 1
    /\ \A k \in 0..4 :
         batch.events[k + 1].eventType \notin AllowedTypes => batch.errors[1].index = k

\* the report of a batch whose invalid item is at input position 3
C5_Witness ==
  /\ batch.status = "done"
  /\ Len(batch.events) = 5
  /\ batch.events[4].eventType \notin AllowedTypes
  /\ batch.report.successful = 4
  /\ batch.errors[1].index = 3

\* C6: at most 5 tasks of a trackBatchEvents call are in flight, and a task
\* of one window of 5 exists only when every item of the earlier windows has
\* completed and been collected.
C6_WindowsOfFive ==
  /\ Cardinality({id \in TaskIds : InFlight(id)}) <= 5
  /\ \A id \in TaskIds :
       \A j \in 0..(Len(batch.events) - 1) :
         (j \div 5) < (id \div 5) => j \in Reported /\ j \notin TaskIds

\* five tasks of a later window are in flight
C6_Witness ==
  /\ batch.status = "running"
  /\ batch.i >= 5
  /\ Cardinality({id \in TaskIds : InFlight(id)}) = 5

\* C7: a deleteSession call made when the session has its metadata item and
\* k event items returns k + 1 and leaves the partition empty, and a
\* getSessionTimeline call on an empty partition ends in NotFoundError.
C7_DeleteCascade ==
  \A p \in ProcIds :
    /\ (/\ calls[p].op = "deleteSession" /\ IsDone(p)
        /\ \E x \in calls[p].pre : x.SK = MetadataSK)
         => /\ calls[p].error = "none"
            /\ calls[p].value = 1 + Cardinality({x \in calls[p].pre : x.itemType = "EVENT"})
            /\ Partition(table, calls[p].sessionId) = {}
            /\ ~timelineFound(getSession(table, calls[p].sessionId),
                              getSessionEvents(table, calls[p].sessionId))
    /\ (/\ calls[p].op = "getSessionTimeline" /\ IsDone(p)
        /\ Partition(table, calls[p].sessionId) = {})
         => calls[p].error = "NotFoundError"

\* the metadata item and 3 events have been deleted
C7_Witness ==
  \E p \in ProcIds :
    /\ calls[p].op = "deleteSession" /\ Succeeded(p)
    /\ \E x \in calls[p].pre : x.SK = MetadataSK
    /\ Cardinality({x \in calls[p].pre : x.itemType = "EVENT"}) = 3
    /\ calls[p].value = 4

\* C8: when trackEvent and deleteEvent calls on a session run one after
\* another, stepsTaken of the session equals the number of its stored events
\* whenever no call is in progress.
C8_StepsCountEvents ==
  \A s \in SessionIds :
    (getSession(table, s) # NoItem /\ \A id \in DOMAIN calls : ~InFlight(id))
      => getSession(table, s).stepsTaken = Cardinality(EventsOf(s))

\* C9: when overlapping trackEvent calls on a session have all completed,
\* stepsTaken is at most the number of stored events and at least 1 if there
\* is one: the counter may have lost increments, and has not gained any.
C9_LostUpdate ==
  (\A id \in DOMAIN calls : ~InFlight(id)) =>
    LET steps == getSession(table, "s1").stepsTaken
        stored == Cardinality(EventsOf("s1"))
    IN /\ steps <= stored
       /\ stored > 0 => steps >= 1

\* two overlapping trackEvent calls are done, both events are stored, and
\* stepsTaken has grown from 0 to 1
C9_Witness ==
  /\ \A p \in ProcIds : calls[p].op = "trackEvent" /\ Succeeded(p)
  /\ \A p \in ProcIds : calls[p].event \in table
  /\ Cardinality(EventsOf("s1")) = 2
  /\ getSession(table, "s1").stepsTaken = 1

\* the same between two tasks of one batch window
C9_WitnessInWindow ==
  /\ batch.status = "done"
  /\ batch.report.successful = 2
  /\ Cardinality(EventsOf("s1")) = 2
  /\ getSession(table, "s1").stepsTaken = 1

\* C10: stepsTaken of every stored session is a non-negative integer.
C10_StepsNonNegative ==
  \A x \in table :
    x.itemType = "SESSION_METADATA" => x.stepsTaken \in Nat

\* C11: a successful updateSession sets the allow-listed fields of its request
\* and updatedAt in the stored session and changes nothing else: every other
\* attribute of the item, its keys included, and every other item stay as
\* they were, and request keys outside the allow-list have no effect.
C11_UpdateFrame ==
  [][\A p \in ProcIds :
       (/\ calls[p].op = "updateSession" /\ calls[p].pc = "updPut"
        /\ calls'[p].pc = "done" /\ calls'[p].error = "none")
         => LET old == getSession(table, calls[p].sessionId)
                new == getSession(table', calls[p].sessionId)
                set == DOMAIN calls[p].input
                         \cap {"externalId", "status", "metadata", "stepsTaken"}
            IN /\ old # NoItem /\ new # NoItem
               /\ DOMAIN new = DOMAIN old
               /\ \A f \in set : new[f] = calls[p].input[f]
               /\ \A f \in DOMAIN new \ (set \cup {"updatedAt"}) : new[f] = old[f]
               /\ new.updatedAt = ToISOString(now)
               /\ table' \ {new} = table \ {old}]_vars

\* an update whose request carried allow-listed and other keys has completed
C11_Witness ==
  \E p \in ProcIds :
    /\ calls[p].op = "updateSession" /\ Succeeded(p)
    /\ {"status", "sessionId", "createdAt"} \subseteq DOMAIN calls[p].input
    /\ getSession(table, "s1").status = "completed"
    /\ getSession(table, "s1").stepsTaken = 7
    /\ getSession(table, "s1").sessionId = "s1"

\* C12: updateSession on a session id with no metadata item ends in
\* NotFoundError, and updateSession whose request has no allow-listed field
\* ends in ValidationError in the step of the call, before any store access;
\* in both cases the table is unchanged.
C12_UpdateRejected ==
  [][\A p \in ProcIds :
       /\ (/\ calls[p].op = "idle" /\ calls'[p].op = "updateSession"
           /\ DOMAIN calls'[p].input
                \cap {"externalId", "status", "metadata", "stepsTaken"} = {})
            => /\ calls'[p].pc = "done"
               /\ calls'[p].error = "ValidationError"
               /\ table' = table
       /\ (/\ calls[p].op = "updateSession" /\ InFlight(p)
           /\ getSession(table, calls[p].sessionId) = NoItem
           /\ calls'[p] # calls[p])
            => /\ calls'[p].pc = "done"
               /\ calls'[p].error = "NotFoundError"
               /\ table' = table]_vars

\* an update of a session that does not exist has ended in NotFoundError
C12_Witness ==
  \E p \in ProcIds :
    /\ calls[p].op = "updateSession" /\ Failed(p, "NotFoundError")
    /\ table = {}

\* the allow-listed fields the updateSession call p supplied
Supplied(p) ==
  DOMAIN calls[p].input \cap {"externalId", "status", "metadata", "stepsTaken"}

\* C13: when two overlapping updateSession calls on one session that set
\* disjoint allow-listed fields have both completed, the stored session holds
\* the values both of them supplied.
C13_FieldGranularity ==
  \A p, q \in ProcIds :
    (/\ p # q
     /\ calls[p].op = "updateSession" /\ Succeeded(p)
     /\ calls[q].op = "updateSession" /\ Succeeded(q)
     /\ calls[p].sessionId = calls[q].sessionId
     /\ Supplied(p) \cap Supplied(q) = {})
      => LET session == getSession(table, calls[p].sessionId)
         IN IF session = NoItem THEN FALSE
            ELSE \A f \in Supplied(p) : session[f] = calls[p].input[f]

\* C14 as stated: a completed trackEvent for a session id with no metadata
\* item has ended in NotFoundError, and no event is stored for that id.
C14_AbsentSessionNotFound ==
  \A p \in ProcIds :
    (/\ calls[p].op = "trackEvent" /\ IsDone(p)
     /\ getSession(table, calls[p].sessionId) = NoItem)
      => /\ calls[p].error = "NotFoundError"
         /\ EventsOf(calls[p].sessionId) = {}

\* C14 as amended: a trackEvent whose eventType passed validation and whose
\* session has no metadata item ends in NotFoundError at its session check
\* with the table unchanged, and while no deleteSession is in progress every
\* stored event has a metadata item in its partition.
C14_NoEventWithoutSession ==
  [][/\ \A p \in ProcIds :
          (/\ calls[p].op = "trackEvent" /\ calls[p].pc = "getSession"
           /\ getSession(table, calls[p].sessionId) = NoItem
           /\ calls'[p] # calls[p])
            => /\ calls'[p].pc = "done"
               /\ calls'[p].error = "NotFoundError"
               /\ table' = table
     /\ (\A p \in ProcIds : calls'[p].op = "deleteSession" => calls'[p].pc = "done")
          => \A x \in table' :
               x.itemType = "EVENT" => getSession(table', x.sessionId) # NoItem]_vars

\* a trackEvent for a missing session has ended in NotFoundError while
\* another session has its events
C14_Witness ==
  \E p \in ProcIds :
    /\ calls[p].op = "trackEvent" /\ Failed(p, "NotFoundError")
    /\ getSession(table, calls[p].sessionId) = NoItem
    /\ StoredEvents # {}

\* C15: nothing keeps a trackEvent that overlaps a deleteSession from leaving
\* an orphaned event: the event put is unconditional, whether or not the
\* metadata item is still stored, and the call then returns successfully
\* whatever becomes of the step increment.
C15_EventPutUnconditional ==
  [][\A p \in ProcIds :
       /\ (/\ calls[p].op = "trackEvent" /\ calls[p].pc = "putEvent"
           /\ calls'[p] # calls[p])
            => /\ calls'[p].pc = "incGet"
               /\ table' = putItem(table, calls[p].event)
               /\ calls[p].event \in table'
       /\ (/\ calls[p].op = "trackEvent"
           /\ calls[p].pc \in {"incGet", "updGet", "updPut"}
           /\ calls'[p].pc = "done")
            => /\ calls'[p].error = "none"
               /\ calls'[p].event = calls[p].event]_vars

\* trackEvent and deleteSession have both succeeded, and the event is stored
\* in a partition that has no metadata item
C15_Witness ==
  \E p, q \in ProcIds :
    /\ calls[p].op = "trackEvent" /\ Succeeded(p)
    /\ calls[q].op = "deleteSession" /\ Succeeded(q)
    /\ calls[q].sessionId = calls[p].sessionId
    /\ calls[p].event \in table
    /\ getSession(table, calls[p].sessionId) = NoItem

\* C16: once trackEvent has written its event, the call returns the event
\* successfully and the event stays stored however the step increment ends;
\* once deleteEvent has deleted its event, the call returns successfully and
\* the event stays deleted however the step decrement ends.
C16_CounterFailureSwallowed ==
  [][\A p \in ProcIds :
       /\ (/\ calls[p].op = "trackEvent"
           /\ calls[p].pc \in {"incGet", "updGet", "updPut"}
           /\ calls'[p].pc = "done")
            => /\ calls'[p].error = "none"
               /\ calls'[p].event = calls[p].event
               /\ calls[p].event \in table'
       /\ (/\ calls[p].op = "deleteEvent"
           /\ calls[p].pc \in {"decGet", "updGet", "updPut"}
           /\ calls'[p].pc = "done")
            => /\ calls'[p].error = "none"
               /\ getItem(table', SessionPK(calls[p].sessionId),
                          EventSK(calls[p].input.timestamp, calls[p].input.eventId))
                    = NoItem]_vars

\* trackEvent has returned its event, the event is stored, and the counter
\* of the session was not incremented
C16_Witness ==
  \E p \in ProcIds :
    /\ calls[p].op = "trackEvent" /\ Succeeded(p)
    /\ calls[p].event \in table
    /\ getSession(table, calls[p].sessionId) # NoItem
    /\ getSession(table, calls[p].sessionId).stepsTaken = 0

\* deleteEvent has returned, the event is deleted, and the counter of the
\* session was not decremented
C16_WitnessDelete ==
  \E p \in ProcIds :
    /\ calls[p].op = "deleteEvent" /\ Succeeded(p)
    /\ EventsOf(calls[p].sessionId) = {}
    /\ getSession(table, calls[p].sessionId) # NoItem
    /\ getSession(table, calls[p].sessionId).stepsTaken = 1

\* the request of a trackEvent call has an eventType that is missing or
\* outside the enumeration
InvalidType(input) == input.eventType \in {Null, ""} \/ input.eventType \notin AllowedTypes

\* the request of a trackEvent call has an eventData that is not a plain
\* object
InvalidData(input) == input.eventData # Null /\ input.eventData \notin PlainObjects

\* C17 as stated: a completed trackEvent whose eventType is missing or not in
\* the enumeration, or whose eventData is not a plain object, has ended in
\* ValidationError and has built no event.
C17_InvalidIsValidationError ==
  \A p \in ProcIds :
    (/\ calls[p].op = "trackEvent" /\ IsDone(p)
     /\ InvalidType(calls[p].input) \/ InvalidData(calls[p].input))
      => /\ calls[p].error = "ValidationError"
         /\ calls[p].event = NoItem

\* C17 as amended: a trackEvent with an invalid eventType ends in
\* ValidationError in the step of the call; one with a valid eventType and an
\* eventData that is not a plain object ends after its session read, in
\* ValidationError if the session exists and in NotFoundError if not; in
\* each case the table is unchanged.
C17_InvalidRequestRejected ==
  [][\A p \in ProcIds :
       /\ (/\ calls[p].op = "idle" /\ calls'[p].op = "trackEvent"
           /\ InvalidType(calls'[p].input))
            => /\ calls'[p].pc = "done"
               /\ calls'[p].error = "ValidationError"
               /\ table' = table
       /\ (/\ calls[p].op = "trackEvent" /\ calls[p].pc = "getSession"
           /\ InvalidData(calls[p].input)
           /\ calls'[p] # calls[p])
            => /\ calls'[p].pc = "done"
               /\ calls'[p].error =
                    IF getSession(table, calls[p].sessionId) = NoItem
                    THEN "NotFoundError" ELSE "ValidationError"
               /\ calls'[p].event = NoItem
               /\ table' = table]_vars

\* a trackEvent with an array as eventData has ended in ValidationError on a
\* session that has events
C17_Witness ==
  \E p \in ProcIds :
    /\ calls[p].op = "trackEvent" /\ Failed(p, "ValidationError")
    /\ InvalidData(calls[p].input)
    /\ EventsOf(calls[p].sessionId) # {}

\* C18: the eventType of every stored event item is a member of the
\* event-type enumeration.
C18_EventTypeInEnumeration ==
  \A x \in table : x.itemType = "EVENT" => x.eventType \in AllowedTypes

\* C19: an updateEvent addressed to a key under which no item is stored ends
\* in NotFoundError and leaves the table as it was.
C19_UpdateMissingEvent ==
  [][\A p \in ProcIds :
       (/\ calls[p].op = "updateEvent" /\ calls[p].pc = "updItem"
        /\ getItem(table, SessionPK(calls[p].sessionId),
                   EventSK(calls[p].input.timestamp, calls[p].input.eventId)) = NoItem
        /\ calls'[p] # calls[p])
         => /\ calls'[p].error = "NotFoundError"
            /\ table' = table]_vars

\* C20: the duration getSessionAnalytics returns is never negative; it is 0
\* for fewer than 2 events, and otherwise the seconds from the timestamp of
\* the first returned event to that of the last.
C20_DurationNonNegative ==
  \A p \in ProcIds :
    (calls[p].op = "getSessionAnalytics" /\ Succeeded(p))
      => LET events == calls[p].items
         IN /\ calls[p].value >= 0
            /\ Len(events) < 2 => calls[p].value = 0
            /\ (/\ Len(events) >= 2
                /\ events[1].timestamp # NoTimestamp
                /\ events[Len(events)].timestamp # NoTimestamp)
                 => calls[p].value = ParseDate(events[Len(events)].timestamp)
                                       - ParseDate(events[1].timestamp)

\* the event types stored for the session of the call p
StoredTypes(p) == {x.eventType : x \in EventsOf(calls[p].sessionId)}

\* C21: the conversionFunnel getSessionAnalytics returns is four independent
\* presence checks over the events stored for the session: landed iff a
\* landing event is stored, engaged iff a click, page_view or quiz_start event
\* is, startedCheckout iff a checkout_start event is, converted iff a
\* checkout_complete event is; landing then checkout_complete alone yields
\* landed and converted, and neither engaged nor startedCheckout.
C21_FunnelPresence ==
  \A p \in ProcIds :
    (calls[p].op = "getSessionAnalytics" /\ Succeeded(p))
      => LET funnel == calls[p].report.conversionFunnel
             types == StoredTypes(p)
         IN /\ funnel.landed <=> "landing" \in types
            /\ funnel.engaged <=> types \cap {"click", "page_view", "quiz_start"} # {}
            /\ funnel.startedCheckout <=> "checkout_start" \in types
            /\ funnel.converted <=> "checkout_complete" \in types
            /\ (/\ Len(calls[p].items) = 2
                /\ calls[p].items[1].eventType = "landing"
                /\ calls[p].items[2].eventType = "checkout_complete")
                 => funnel = [landed |-> TRUE, engaged |-> FALSE,
                              startedCheckout |-> FALSE, converted |-> TRUE]

\* the analytics of a session with exactly landing, then checkout_complete
C21_Witness ==
  \E p \in ProcIds :
    /\ calls[p].op = "getSessionAnalytics" /\ Succeeded(p)
    /\ Len(calls[p].items) = 2
    /\ calls[p].items[1].eventType = "landing"
    /\ calls[p].items[2].eventType = "checkout_complete"
    /\ calls[p].report.conversionFunnel.converted
    /\ ~calls[p].report.conversionFunnel.startedCheckout

\* the analytics of a session whose checkout_complete came before its landing
C21_WitnessOrder ==
  \E p \in ProcIds :
    /\ calls[p].op = "getSessionAnalytics" /\ Succeeded(p)
    /\ Len(calls[p].items) = 3
    /\ calls[p].items[1].eventType = "checkout_complete"
    /\ calls[p].items[2].eventType = "quiz_start"
    /\ calls[p].items[3].eventType = "landing"
    /\ calls[p].report.conversionFunnel =
         [landed |-> TRUE, engaged |-> TRUE, startedCheckout |-> FALSE, converted |-> TRUE]

RECURSIVE SumOver(_, _)
\* the sum of the values f takes on the set S
SumOver(f, S) ==
  IF S = {} THEN 0
  ELSE LET x == CHOOSE y \in S : TRUE IN f[x] + SumOver(f, S \ {x})

\* C22: the eventBreakdown getSessionAnalytics returns has an entry for
\* exactly the event types that occur among the events stored for the
\* session, each with the number of events of that type, and its counts sum
\* to the eventCount of the same response.
C22_BreakdownCounts ==
  \A p \in ProcIds :
    (calls[p].op = "getSessionAnalytics" /\ Succeeded(p))
      => LET breakdown == calls[p].report.eventBreakdown
         IN /\ DOMAIN breakdown = StoredTypes(p)
            /\ \A type \in DOMAIN breakdown :
                 breakdown[type] =
                   Cardinality({x \in EventsOf(calls[p].sessionId) : x.eventType = type})
            /\ SumOver(breakdown, DOMAIN breakdown) = calls[p].report.eventCount

\* the analytics of a session with two events of one type and one of another
C22_Witness ==
  \E p \in ProcIds :
    /\ calls[p].op = "getSessionAnalytics" /\ Succeeded(p)
    /\ calls[p].report.eventCount = 3
    /\ DOMAIN calls[p].report.eventBreakdown = {"landing", "click"}
    /\ calls[p].report.eventBreakdown["click"] = 2

\* the sessions GSI1 holds for the user of the call p
SessionsOfUser(p) ==
  {x \in IndexedItems(table) : x.GSI1PK = <<"USER#", calls[p].input.externalId>>}

\* C23: getSessionsByExternalId(u, limit) returns min(limit, n) of the n
\* sessions indexed for u, each once, in ascending createdAt order, and no
\* session it leaves out was created before one it returns; of 2 sessions
\* created at different times, limit = 1 returns exactly the earlier one.
C23_FirstInIndexOrder ==
  \A p \in ProcIds :
    (calls[p].op = "getUserSessions" /\ Succeeded(p))
      => LET result == calls[p].items
             limit == calls[p].idx
             all == SessionsOfUser(p)
         IN /\ Len(result) = Min(limit, Cardinality(all))
            /\ Len(result) <= limit
            /\ Range(result) \subseteq all
            /\ Cardinality(Range(result)) = Len(result)
            /\ \A i, j \in DOMAIN result :
                 i < j => ParseDate(result[i].createdAt) <= ParseDate(result[j].createdAt)
            /\ \A x \in all \ Range(result), y \in Range(result) :
                 ParseDate(y.createdAt) <= ParseDate(x.createdAt)
            /\ \A x, y \in all :
                 (/\ all = {x, y} /\ limit = 1
                  /\ ParseDate(x.createdAt) < ParseDate(y.createdAt))
                   => result = <<x>>

\* of two sessions of one user, the request with limit = 1 has returned the
\* one created first
C23_Witness ==
  \E p \in ProcIds :
    /\ calls[p].op = "getUserSessions" /\ Succeeded(p)
    /\ calls[p].input.limit = LimitParam(1)
    /\ Cardinality(SessionsOfUser(p)) = 2
    /\ Len(calls[p].items) = 1
    /\ \E y \in SessionsOfUser(p) :
         ParseDate(calls[p].items[1].createdAt) < ParseDate(y.createdAt)

\* C24: a createSession for a session id that has a metadata item succeeds;
\* its put replaces that item by the newly built one, so that the id keeps
\* exactly one metadata item, and every other item of the table, the events
\* of the partition included, is left as it was.
C24_RecreateOverwrites ==
  [][\A p \in ProcIds :
       (/\ calls[p].op = "createSession" /\ calls[p].pc = "putSession"
        /\ getSession(table, calls[p].sessionId) # NoItem
        /\ calls'[p] # calls[p])
         => LET old == getSession(table, calls[p].sessionId)
                new == calls[p].updated
            IN /\ calls'[p].pc = "done" /\ calls'[p].error = "none"
               /\ {x \in Partition(table', calls[p].sessionId) : x.SK = MetadataSK} = {new}
               /\ table' \ {new} = table \ {old}
               /\ EventsOf(calls[p].sessionId)
                    = {x \in Partition(table', calls[p].sessionId) : x.itemType = "EVENT"}]_vars

\* a createSession has replaced the metadata item of a session that has
\* events and had counted its steps
C24_Witness ==
  \E p \in ProcIds :
    /\ calls[p].op = "createSession" /\ Succeeded(p)
    /\ EventsOf(calls[p].sessionId) # {}
    /\ getSession(table, calls[p].sessionId) = calls[p].updated
    /\ getSession(table, calls[p].sessionId).stepsTaken = 0
    /\ \E x \in EventsOf(calls[p].sessionId) :
         ParseDate(x.timestamp) < ParseDate(calls[p].updated.createdAt)

\* the item has neither key attribute of GSI1
Unindexed(x) == DOMAIN x \cap {"GSI1PK", "GSI1SK"} = {}

\* C25: the put of a createSession whose request has no externalId stores an
\* item with neither GSI1PK nor GSI1SK, and no item without these attributes
\* is among the sessions a user-session query returns, whatever the user.
C25_NoIndexKeysWithoutExternalId ==
  [][\A p \in ProcIds :
       /\ (/\ calls[p].op = "createSession" /\ calls[p].pc = "putSession"
           /\ calls[p].input.externalId \in {Null, ""}
           /\ calls'[p] # calls[p])
            => /\ getSession(table', calls[p].sessionId) # NoItem
               /\ Unindexed(getSession(table', calls[p].sessionId))
       /\ (/\ calls[p].op = "getUserSessions" /\ calls[p].pc = "queryIndex"
           /\ calls'[p] # calls[p])
            => \A x \in table : Unindexed(x) => x \notin Range(calls'[p].items)]_vars

\* the sessions of a user have been asked for while a session that was
\* created without an externalId, and was given that user later, is stored
C25_Witness ==
  \E p \in ProcIds :
    /\ calls[p].op = "getUserSessions" /\ Succeeded(p)
    /\ \E x \in table :
         /\ Unindexed(x)
         /\ x.externalId = calls[p].input.externalId
         /\ x \notin Range(calls[p].items)
    /\ calls[p].items # <<>>

\* C26: the keys of every stored item agree with its identifying attributes:
\* a session metadata item has PK = SESSION#<sessionId> and SK = #METADATA,
\* and an event item has PK = SESSION#<sessionId> and
\* SK = EVENT#<timestamp>#<eventId>.
C26_KeysAgreeWithAttributes ==
  \A x \in table :
    /\ x.itemType = "SESSION_METADATA"
         => x.PK = SessionPK(x.sessionId) /\ x.SK = MetadataSK
    /\ x.itemType = "EVENT"
         => x.PK = SessionPK(x.sessionId) /\ x.SK = EventSK(x.timestamp, x.eventId)

\* C27: the status of every stored session is active or completed.
C27_StatusEnumerated ==
  \A x \in table :
    x.itemType = "SESSION_METADATA" => x.status \in {"active", "completed"}

StoredSessions == {x \in table : x.itemType = "SESSION_METADATA"}

\* C28: the put of a createSession whose request has no sessionId stores a
\* session with a generated, non-null sessionId, and the table has one more
\* session than before.
C28_SessionIdGenerated ==
  [][\A p \in ProcIds :
       (/\ calls[p].op = "createSession" /\ calls[p].pc = "putSession"
        /\ calls[p].input.sessionId = Null
        /\ calls'[p] # calls[p])
         => /\ calls'[p].updated \in table'
            /\ calls'[p].updated.sessionId # Null
            /\ Cardinality(StoredSessions') = Cardinality(StoredSessions) + 1]_vars

\* C29: when a delete of the loop of deleteSession fails, the call ends in
\* InternalError without a count, the table is as the failed delete found
\* it, the items enumerated before the failing one are deleted and those
\* enumerated after it are stored: they are never attempted.
C29_PartialDelete ==
  [][\A p \in ProcIds :
       (/\ calls[p].op = "deleteSession" /\ calls[p].pc = "delete"
        /\ calls'[p].error = "InternalError")
         => LET items == calls[p].items
                k == calls[p].idx
            IN /\ calls'[p].pc = "done"
               /\ calls'[p].value = 0
               /\ table' = table
               /\ \A i \in 1..(k - 1) : items[i] \notin table'
               /\ \A i \in (k + 1)..Len(items) : items[i] \in table'
               /\ \A id \in DOMAIN calls' : ~InFlight(id)']_vars

\* a deleteSession has failed after it deleted the metadata item and one
\* event, and another event of the session is still stored
C29_Witness ==
  \E p \in ProcIds :
    /\ calls[p].op = "deleteSession" /\ Failed(p, "InternalError")
    /\ Cardinality(calls[p].pre \ table) = 2
    /\ Cardinality(calls[p].pre \cap table) >= 1

\* C30: deleteSession deletes its items in ascending sort-key order, the
\* metadata item before any event: once a deleteSession, interrupted or not,
\* has removed an item of the partition, the metadata item is absent and
\* every item that is left in the partition is an event.
C30_MetadataDeletedFirst ==
  \A p \in ProcIds :
    calls[p].op = "deleteSession" =>
      /\ \A i, j \in DOMAIN calls[p].items :
           i < j => LexLess(calls[p].items[i].SK, calls[p].items[j].SK)
      /\ Partition(table, calls[p].sessionId) # calls[p].pre
           => /\ getSession(table, calls[p].sessionId) = NoItem
              /\ \A x \in Partition(table, calls[p].sessionId) :
                   x.itemType = "EVENT" /\ BeginsWith(x.SK, EventPrefix)

\* a deleteSession has failed on its second delete: the metadata item is
\* gone and the events of the session are all stored
C30_Witness ==
  \E p \in ProcIds :
    /\ calls[p].op = "deleteSession" /\ Failed(p, "InternalError")
    /\ \E x \in calls[p].pre : x.SK = MetadataSK
    /\ getSession(table, calls[p].sessionId) = NoItem
    /\ Cardinality(EventsOf(calls[p].sessionId)) >= 2
    /\ calls[p].pre \ table = {x \in calls[p].pre : x.SK = MetadataSK}

\* C31: once a deleteSession of a session has completed successfully, a
\* step that stores a metadata item for the session again is a step taken
\* while a createSession is in progress.
C31_DeletedStaysDeleted ==
  [][\A q \in ProcIds :
       (/\ calls[q].op = "deleteSession" /\ Succeeded(q)
        /\ getSession(table, calls[q].sessionId) = NoItem
        /\ getSession(table', calls[q].sessionId) # NoItem)
         => \E p \in ProcIds : calls[p].op = "createSession"]_vars

\* C32: the index keys of every stored session follow its externalId: the
\* session has GSI1PK = USER#<externalId> when its externalId is not null,
\* and no index keys when it is null.
C32_IndexFollowsExternalId ==
  \A x \in StoredSessions :
    IF x.externalId = Null THEN Unindexed(x)
    ELSE /\ {"GSI1PK", "GSI1SK"} \subseteq DOMAIN x
         /\ x.GSI1PK = <<"USER#", x.externalId>>

\* C39: in the summary of a user-session request, totalSessions is the
\* number of returned sessions, firstSeen is the earliest createdAt and
\* lastActive the latest updatedAt among them, and both are null when no
\* session is returned.
C39_SummaryExtremes ==
  \A p \in ProcIds :
    (calls[p].op = "getUserSessions" /\ Succeeded(p))
      => LET sessions == calls[p].items
             summary == calls[p].report
         IN /\ summary.totalSessions = Len(sessions)
            /\ IF sessions = <<>>
               THEN summary.firstSeen = NoTimestamp /\ summary.lastActive = NoTimestamp
               ELSE \A i \in DOMAIN sessions :
                      /\ ParseDate(summary.firstSeen) <= ParseDate(sessions[i].createdAt)
                      /\ ParseDate(summary.lastActive) >= ParseDate(sessions[i].updatedAt)

\* C33: a put of updateSession, whether it comes from an updateSession
\* request, a step increment or a step decrement, leaves createdAt of the
\* session as it was and sets updatedAt to the time of the mutation, which
\* is not before the former updatedAt; updatedAt >= createdAt holds for
\* every stored session.
C33_Timestamps ==
  [][/\ \A p \in ProcIds :
          (calls[p].pc = "updPut" /\ calls'[p] # calls[p])
            => LET old == getSession(table, calls[p].sessionId)
                   new == getSession(table', calls[p].sessionId)
               IN /\ old # NoItem /\ new # NoItem
                  /\ new.createdAt = old.createdAt
                  /\ new.updatedAt = ToISOString(now)
                  /\ ParseDate(new.updatedAt) >= ParseDate(old.updatedAt)
     /\ \A x \in table' :
          x.itemType = "SESSION_METADATA"
            => ParseDate(x.updatedAt) >= ParseDate(x.createdAt)]_vars

\* a step increment has moved updatedAt of the session past the time of the
\* latest mutation before it
C33_Witness ==
  \E p \in ProcIds :
    /\ calls[p].op = "trackEvent" /\ Succeeded(p)
    /\ getSession(table, "s1").stepsTaken = 3
    /\ getSession(table, "s1").updatedAt = ToISOString(MaxClock)
    /\ getSession(table, "s1").createdAt = ToISOString(ClockStart - 1)

\* C34: while trackEvent calls on a session overlap, as requests or as the
\* tasks of a batch, stepsTaken of the session is at most the number of its
\* stored events in every state, and so is every step count a call is
\* about to write.
C34_StepsNeverAhead ==
  /\ getSession(table, "s1").stepsTaken <= Cardinality(EventsOf("s1"))
  /\ \A id \in DOMAIN calls :
       calls[id].pc = "updPut"
         => calls[id].updated.stepsTaken <= Cardinality(EventsOf("s1"))

\* both events are stored, stepsTaken is 1, and an increment computed from a
\* stale read is about to write 1 again
C34_Witness ==
  /\ Cardinality(EventsOf("s1")) = 2
  /\ getSession(table, "s1").stepsTaken = 1
  /\ \E id \in DOMAIN calls :
       calls[id].pc = "updPut" /\ calls[id].updated.stepsTaken = 1

\* C35: when createSession, trackEvent, trackBatchEvents, deleteEvent and
\* deleteSession calls run one after another and no store operation fails,
\* then whenever no call is in progress every stored event has a session
\* metadata item in its partition.
C35_NoOrphanSequentially ==
  ((\A id \in DOMAIN calls : ~InFlight(id)) /\ batch.status # "running")
    => \A x \in StoredEvents : getSession(table, x.sessionId) # NoItem

\* a batch has stored two events on a session after an earlier event of the
\* session was deleted
C35_Witness ==
  /\ batch.status = "done"
  /\ batch.report.successful = 2
  /\ Cardinality(EventsOf("s1")) = 2
  /\ idStream = <<>>
  /\ getSession(table, "s1") # NoItem

\* the index values of a sequence of report entries
Indexes(entries) == [k \in DOMAIN entries |-> entries[k].index]

\* C36: in the report of trackBatchEvents, results and errors together have
\* one entry for each input index 0..total-1, and the entries of results
\* and those of errors are in ascending index order, in whatever order the
\* tasks of a window completed.
C36_ReportInInputOrder ==
  /\ \A i, j \in DOMAIN batch.results :
       i < j => batch.results[i].index < batch.results[j].index
  /\ \A i, j \in DOMAIN batch.errors :
       i < j => batch.errors[i].index < batch.errors[j].index
  /\ batch.status = "done" =>
       /\ Range(Indexes(batch.results)) \cup Range(Indexes(batch.errors))
            = 0..(batch.report.total - 1)
       /\ Len(batch.results) + Len(batch.errors) = batch.report.total

\* a report of two windows in which the task of input index 2 took its
\* timestamp before the task of input index 0 did
C36_Witness ==
  /\ batch.status = "done"
  /\ Len(batch.events) > 5
  /\ Indexes(batch.results) = <<0, 2>>
  /\ ParseDate(batch.results[2].timestamp) < ParseDate(batch.results[1].timestamp)
  /\ Len(batch.errors) >= 2

\* the window of the batch that ran the task of a report entry
WindowOf(entry) == entry.index \div CONCURRENCY_LIMIT

\* the position of the event of a report entry in the events of its session
PositionOf(entry) ==
  LET events == getSessionEvents(table, entry.sessionId)
  IN CHOOSE i \in DOMAIN events : events[i].eventId = entry.eventId

\* C37 as stated: every event written by a window of the batch has a
\* timestamp and a sort key not greater than those of every event written
\* by a later window, and getSessionEvents returns it before them.
C37_WindowsInSortKeyOrder ==
  batch.status = "done" =>
    \A i, j \in DOMAIN batch.results :
      LET a == batch.results[i]
          b == batch.results[j]
      IN WindowOf(a) < WindowOf(b)
           => /\ ParseDate(a.timestamp) <= ParseDate(b.timestamp)
              /\ ~LexLess(EventSK(b.timestamp, b.eventId), EventSK(a.timestamp, a.eventId))
              /\ PositionOf(a) < PositionOf(b)

\* C37 as amended: every event written by a window of the batch has a
\* timestamp not greater than that of every event written by a later
\* window; getSessionEvents returns it before them when the timestamps
\* differ, and in the order of the event ids when the timestamps are
\* identical.
C37_WindowsInTimestampOrder ==
  batch.status = "done" =>
    \A i, j \in DOMAIN batch.results :
      LET a == batch.results[i]
          b == batch.results[j]
      IN WindowOf(a) < WindowOf(b)
           => /\ ParseDate(a.timestamp) <= ParseDate(b.timestamp)
              /\ ParseDate(a.timestamp) < ParseDate(b.timestamp)
                   => PositionOf(a) < PositionOf(b)
              /\ a.timestamp = b.timestamp
                   => (PositionOf(a) < PositionOf(b)
                         <=> CharRank(a.eventId) < CharRank(b.eventId))

\* two windows of a batch have written events of one timestamp, and the
\* event of the later window comes first in the events of the session
C37_Witness ==
  /\ batch.status = "done"
  /\ \E i, j \in DOMAIN batch.results :
       /\ WindowOf(batch.results[i]) < WindowOf(batch.results[j])
       /\ batch.results[i].timestamp = batch.results[j].timestamp
       /\ PositionOf(batch.results[j]) < PositionOf(batch.results[i])

\* C38: every trackBatchEvents call that has started its first window
\* eventually returns its report, with every window finished and the loop
\* at the end of the input, provided each store operation eventually
\* completes with success or failure.
C38_BatchReturns ==
  (batch.status = "running")
    ~> (/\ batch.status = "done"
        /\ batch.i >= Len(batch.events)
        /\ batch.report.total = Len(batch.events)
        /\ TaskIds = {})

\* a batch of two windows has returned its report, in which one task has
\* succeeded and another has failed on a store operation
C38_Witness ==
  /\ batch.status = "done"
  /\ Len(batch.events) > CONCURRENCY_LIMIT
  /\ batch.i >= Len(batch.events)
  /\ Len(batch.results) >= 1
  /\ \E k \in DOMAIN batch.errors : batch.errors[k].error = "InternalError"

====
